---------------------------- MODULE Spec2Model ----------------------------
(***************************************************************************)
(* DebriSense: the Debris Risk Index (DRI) scoring engine of src/app.py    *)
(* (calculate_dri, adjust_debris_profile) and the land-use table of        *)
(* src/models.py (River.get_debris_profile, River.to_dict), and the routes *)
(* of src/app.py that store, delete and review rows of the database        *)
(* (get_river_dri, delete_river, delete_user, reset_database,              *)
(* clear_rivers, review_report, review_location_request, add_to_watchlist, *)
(* remove_from_watchlist).                                                 *)
(*                                                                         *)
(* Numbers.  Python floats are modelled as exact fixed-point numbers: an   *)
(* integer n stands for n / Unit.  Every raw factor value lies on a grid   *)
(* of tenths, for which each intermediate value of the score is an exact   *)
(* multiple of 1 / Unit, so the only roundings are the ones the code       *)
(* writes (round(x, 2), round(x)).  A float that lies exactly half way     *)
(* between two results may round to either of them (the binary value is    *)
(* not the decimal one); the direction is an input of the rounding.        *)
(* Debris percentages are plain integers.                                  *)
(*                                                                         *)
(* Python values.  A dict is a record with the set of its keys ("keys")    *)
(* and one field per key it may hold; None in a slot that holds a string   *)
(* is the value None, in a slot that holds a number the value NoneNumber   *)
(* (no number of the model is negative), in the slot of the current        *)
(* reading a record whose is_none is TRUE; None and {} in the              *)
(* debris_profile slot are both the empty mapping (the code only tests its *)
(* truth value).                                                           *)
(***************************************************************************)
EXTENDS Integers, FiniteSets, Sequences, TLC

VARIABLES
    pc,               \* position in calculate_dri
    river,            \* argument river
    weather_data,     \* argument weather_data
    rainfall, wind_speed, tide_level, water_flow,          \* lines 449-457
    rainfall_score, wind_score, tide_score, flow_score,    \* lines 464-467
    dri_score, risk_level, risk_color, debris_amount,      \* lines 469-492
    debris_profile, land_use, adjusted_profile,            \* lines 494-510
    drawn,            \* the locals set by random.uniform in this call
    raised,           \* the exception that ended the call, "" when none
    report,           \* the returned dict, lines 512-544
    other,            \* the frame of a second call, of a thread that waits
    db,               \* the tables of src/models.py, as committed
    http              \* the requests in progress and the last response

vars == <<pc, river, weather_data, rainfall, wind_speed, tide_level, water_flow,
          rainfall_score, wind_score, tide_score, flow_score,
          dri_score, risk_level, risk_color, debris_amount,
          debris_profile, land_use, adjusted_profile, drawn, raised, report,
          other, db, http>>

---------------------------------------------------------------------------
(* Fixed-point numbers *)

\* round(x, 2) keeps hundredths
Hundredths == 100

\* n stands for n / Unit
Unit == 12 * Hundredths

\* a raw value given in tenths (35.0 mm is Tenths(350))
Tenths(n) == n * (Unit \div 10)

Min(a, b) == IF a <= b THEN a ELSE b

Max(a, b) == IF a >= b THEN a ELSE b

\* Python's round of the quotient num / den (den > 0) to an integer; up
\* is the direction taken when the quotient lies exactly half way
PyRound(num, den, up) ==
    LET q == num \div den
        r == num % den
    IN  IF 2 * r < den THEN q
        ELSE IF 2 * r > den THEN q + 1
        ELSE IF up THEN q + 1 ELSE q

\* whether num / den lies exactly half way between two integers
IsTie(num, den) == 2 * (num % den) = den

\* round(x, 2) of x = (num / den) / Unit, in hundredths
Round2(num, den, up) == PyRound(num, den * (Unit \div Hundredths), up)

---------------------------------------------------------------------------
(* Debris profiles *)

DebrisTypes == {"plastic", "organic", "household", "industrial", "others"}

None == "None"

\* None where a number is expected
NoneNumber == -1

EmptyDict == [k \in {} |-> 0]

Profile(p, o, h, i, x) ==
    [k \in DebrisTypes |->
        CASE k = "plastic" -> p
          [] k = "organic" -> o
          [] k = "household" -> h
          [] k = "industrial" -> i
          [] OTHER -> x]

LandUses == {"urban", "industrial", "rural", "coastal", "mixed"}

\* the table of calculate_dri
profiles ==
    [lu \in LandUses |->
        CASE lu = "urban" -> Profile(55, 20, 15, 5, 5)
          [] lu = "industrial" -> Profile(35, 10, 10, 35, 10)
          [] lu = "rural" -> Profile(25, 45, 15, 5, 10)
          [] lu = "coastal" -> Profile(40, 20, 10, 10, 20)
          [] OTHER -> Profile(45, 25, 15, 10, 5)]

\* River_profiles with another coastal profile
River_profiles_Coastal ==
    [lu \in LandUses |->
        CASE lu = "urban" -> Profile(55, 20, 15, 5, 5)
          [] lu = "industrial" -> Profile(35, 10, 10, 35, 10)
          [] lu = "rural" -> Profile(25, 45, 15, 5, 10)
          [] lu = "coastal" -> Profile(40, 20, 10, 20, 10)
          [] OTHER -> Profile(45, 25, 15, 10, 5)]

\* the table of River.get_debris_profile
River_profiles ==
    [lu \in LandUses |->
        CASE lu = "urban" -> Profile(55, 20, 15, 5, 5)
          [] lu = "industrial" -> Profile(35, 10, 10, 35, 10)
          [] lu = "rural" -> Profile(25, 45, 15, 5, 10)
          [] lu = "coastal" -> Profile(40, 20, 10, 10, 20)
          [] OTHER -> Profile(45, 25, 15, 10, 5)]

\* d.get(key, default) of a table
TableGet(table, key, default) ==
    IF key \in DOMAIN table THEN table[key] ELSE default

RECURSIVE SumOver(_, _)
SumOver(f, S) ==
    IF S = {} THEN 0
    ELSE LET k == CHOOSE x \in S : TRUE
         IN  f[k] + SumOver(f, S \ {k})

\* sum(d.values())
SumValues(f) == SumOver(f, DOMAIN f)

\* the keys whose scaled value lies exactly half way
TieKeys(adjusted) ==
    LET total == SumValues(adjusted)
    IN  IF total = 100 \/ total <= 0 THEN {}
        ELSE {k \in DOMAIN adjusted : IsTie(adjusted[k] * 100, total)}

\* RainRule that forgets to lower plastic
RainRule_KeepsPlastic(adjusted) ==
    [adjusted EXCEPT !["organic"] = Min(@ + 10, 60)]

\* lines 551-553
RainRule(adjusted) ==
    [adjusted EXCEPT !["organic"] = Min(@ + 10, 60),
                     !["plastic"] = Max(@ - 5, 10)]

\* lines 556-558
WindRule(adjusted) ==
    [adjusted EXCEPT !["plastic"] = Min(@ + 8, 70),
                     !["organic"] = Max(@ - 5, 5)]

\* Adjusted with inclusive thresholds
Adjusted_Inclusive(base_profile, rain, wind) ==
    LET a1 == IF rain >= 30 * Unit THEN RainRule(base_profile) ELSE base_profile
    IN  IF wind >= 25 * Unit THEN WindRule(a1) ELSE a1

\* Adjusted with the wind rule before the rain rule
Adjusted_WindFirst(base_profile, rain, wind) ==
    LET a1 == IF wind > 25 * Unit THEN WindRule(base_profile) ELSE base_profile
    IN  IF rain > 30 * Unit THEN RainRule(a1) ELSE a1

\* lines 548-558: the working copy after the two rules
Adjusted(base_profile, rain, wind) ==
    LET a1 == IF rain > 30 * Unit THEN RainRule(base_profile) ELSE base_profile
    IN  IF wind > 25 * Unit THEN WindRule(a1) ELSE a1

\* Renormalize that forgets the residual
Renormalize_NoResidual(adjusted, up) ==
    LET total == SumValues(adjusted)
    IN  IF total # 100
        THEN [k \in DOMAIN adjusted |->
                 PyRound(adjusted[k] * 100, total, k \in up)]
        ELSE adjusted

\* Renormalize that stores the residual in plastic instead of adding it
Renormalize_ResidualReplaces(adjusted, up) ==
    LET total == SumValues(adjusted)
        scaled == [k \in DOMAIN adjusted |->
                      PyRound(adjusted[k] * 100, total, k \in up)]
        diff == 100 - SumValues(scaled)
    IN  IF total # 100
        THEN [scaled EXCEPT !["plastic"] = diff]
        ELSE adjusted

\* Renormalize that cuts the scaled values off instead of rounding them
Renormalize_Truncates(adjusted, up) ==
    LET total == SumValues(adjusted)
        scaled == [k \in DOMAIN adjusted |-> (adjusted[k] * 100) \div total]
        diff == 100 - SumValues(scaled)
    IN  IF total # 100
        THEN [scaled EXCEPT !["plastic"] = @ + diff]
        ELSE adjusted

\* lines 561-567: the renormalization
Renormalize(adjusted, up) ==
    LET total == SumValues(adjusted)
        scaled == [k \in DOMAIN adjusted |->
                      PyRound(adjusted[k] * 100, total, k \in up)]
        diff == 100 - SumValues(scaled)
    IN  IF total # 100
        THEN [scaled EXCEPT !["plastic"] = @ + diff]
        ELSE adjusted

\* the exception adjust_debris_profile raises, "" when it returns
AdjustRaises(base_profile, rain, wind) ==
    LET ruled == rain > 30 * Unit \/ wind > 25 * Unit
    IN  IF ruled /\ ~({"organic", "plastic"} \subseteq DOMAIN base_profile)
        THEN "KeyError"
        ELSE LET total == SumValues(Adjusted(base_profile, rain, wind))
             IN  IF total = 100 THEN ""
                 ELSE IF total = 0 THEN "ZeroDivisionError"
                 ELSE IF "plastic" \notin DOMAIN base_profile THEN "KeyError"
                 ELSE ""

\* BaseAfter of rules that act on base_profile itself
BaseAfter_InPlace(base_profile, rain, wind) ==
    Adjusted(base_profile, rain, wind)

\* line 548: the rules and the renormalization act on base_profile.copy();
\* the items of base_profile when adjust_debris_profile ends
BaseAfter(base_profile, rain, wind) == base_profile

adjust_debris_profile(base_profile, rain, wind, up) ==
    IF AdjustRaises(base_profile, rain, wind) # ""
    THEN [raised |-> AdjustRaises(base_profile, rain, wind), value |-> EmptyDict]
    ELSE [raised |-> "",
          value |-> Renormalize(Adjusted(base_profile, rain, wind), up)]


---------------------------------------------------------------------------
(* River.get_debris_profile and River.to_dict (src/models.py) *)

\* x or default
PyOr(x, default) == IF x = None \/ x = "" THEN default ELSE x

\* River.get_debris_profile of a row whose land_use column is col
get_debris_profile(col) ==
    TableGet(River_profiles, PyOr(col, "urban"), River_profiles["urban"])

\* River.to_dict: the keys calculate_dri reads
to_dict(id, name, col) ==
    [is_dict |-> TRUE,
     keys |-> {"id", "name", "land_use", "debris_profile"},
     id |-> id,
     name |-> name,
     land_use |-> PyOr(col, "urban"),
     debris_profile |-> get_debris_profile(col)]

---------------------------------------------------------------------------
(* calculate_dri (src/app.py) *)

MAX_RAINFALL == 50

MAX_WIND == 40

MAX_TIDE == 3

MAX_FLOW == 100

\* UsesCurrent that only tests weather_data
UsesCurrent_AnyMapping(w) == ~w.is_none /\ w.keys # {}

\* line 449: weather_data and 'current' in weather_data
UsesCurrent(w) == ~w.is_none /\ w.keys # {} /\ "current" \in w.keys

\* line 450: weather_data['current'] is None, which has no get
ReadRaises(w) == UsesCurrent(w) /\ w.current.is_none

\* lines 450-451: weather_data['current'].get(key, 0)
CurrentGet(w, key) ==
    IF key \in w.current.keys
    THEN (IF key = "precip_mm" THEN w.current.precip_mm ELSE w.current.wind_kph)
    ELSE 0

\* lines 464-465: None / MAX_RAINFALL, None / MAX_WIND
ScoreRaises(rain, wind) == rain = NoneNumber \/ wind = NoneNumber

\* Normalize without the clamp
Normalize_Unclamped(value, max) == (value * 100) \div max

\* Normalize that leaves the ratio unscaled
Normalize_Ratio(value, max) == Min(value \div max, Unit)

\* lines 464-467: min((value / max) * 100, 100)
Normalize(value, max) == Min((value * 100) \div max, 100 * Unit)

\* Weights with the tide at 0.30
Weights_Tide30 ==
    [rainfall |-> 40, wind_speed |-> 25, tide_level |-> 30, water_flow |-> 15]

\* the weights of lines 470-473, in hundredths
Weights ==
    [rainfall |-> 40, wind_speed |-> 25, tide_level |-> 20, water_flow |-> 15]

\* WeightedSum with the weight of the water flow taken as 0.20
WeightedSum_Flow20(rs, ws, ts, fs) ==
    (rs * 40) \div 100 + (ws * 25) \div 100 + (ts * 20) \div 100
        + (fs * 20) \div 100

\* lines 469-474
WeightedSum(rs, ws, ts, fs) ==
    (rs * Weights.rainfall) \div 100 + (ws * Weights.wind_speed) \div 100
        + (ts * Weights.tide_level) \div 100
        + (fs * Weights.water_flow) \div 100

\* RiskTier with inclusive upper thresholds
RiskTier_Inclusive(score) ==
    IF score <= 30 * Unit THEN [level |-> "Very Low", color |-> "#28a745"]
    ELSE IF score <= 50 * Unit THEN [level |-> "Low", color |-> "#90EE90"]
    ELSE IF score <= 70 * Unit THEN [level |-> "Medium", color |-> "#ffc107"]
    ELSE IF score <= 85 * Unit THEN [level |-> "High", color |-> "#fd7e14"]
    ELSE [level |-> "Critical", color |-> "#dc3545"]

\* lines 476-490
RiskTier(score) ==
    IF score < 30 * Unit THEN [level |-> "Very Low", color |-> "#28a745"]
    ELSE IF score < 50 * Unit THEN [level |-> "Low", color |-> "#90EE90"]
    ELSE IF score < 70 * Unit THEN [level |-> "Medium", color |-> "#ffc107"]
    ELSE IF score < 85 * Unit THEN [level |-> "High", color |-> "#fd7e14"]
    ELSE [level |-> "Critical", color |-> "#dc3545"]

\* DebrisAmount that divides by the maximal score
DebrisAmount_Per100(score) == [num |-> score * 11600, den |-> 100]

\* line 492: (dri_score / 70) * 11600, as the quotient num / den
DebrisAmount(score) == [num |-> score * 11600, den |-> 70]

\* line 495
RiverProfile(r) ==
    IF r.is_dict /\ "debris_profile" \in r.keys THEN r.debris_profile
    ELSE EmptyDict

\* line 496
RiverLandUse(r) ==
    IF r.is_dict /\ "land_use" \in r.keys THEN r.land_use ELSE "urban"

\* lines 495 and 499: whether the local debris_profile is the mapping the
\* river holds (otherwise it is an entry of the table built at line 500)
OwnProfile(r) == DOMAIN RiverProfile(r) # {}

\* the river once the mapping debris_profile refers to holds items
RiverAfter(r, items) ==
    IF OwnProfile(r) THEN [r EXCEPT !.debris_profile = items] ELSE r

\* BaseProfile that falls back to the mixed profile
BaseProfile_MixedDefault(profile, lu) ==
    IF DOMAIN profile = {}
    THEN TableGet(profiles, lu, profiles["mixed"])
    ELSE profile

\* lines 499-507
BaseProfile(profile, lu) ==
    IF DOMAIN profile = {}
    THEN TableGet(profiles, lu, profiles["urban"])
    ELSE profile

Factor(value, normalized, weight) ==
    [value |-> Round2(value, 1, FALSE),
     normalized |-> Round2(normalized, 1, FALSE),
     weight |-> weight]

\* lines 512-544 (the timestamp is left out)
Report(up) ==
    [river_id |-> river.id,
     river_name |-> river.name,
     dri_score |-> Round2(dri_score, 1, up),
     risk_level |-> risk_level,
     risk_color |-> risk_color,
     debris_estimate_kg |-> Round2(debris_amount.num, debris_amount.den, up),
     land_use |-> land_use,
     debris_types |-> adjusted_profile,
     factors |->
        [rainfall |-> Factor(rainfall, rainfall_score, "40%"),
         wind_speed |-> Factor(wind_speed, wind_score, "25%"),
         tide_level |-> Factor(tide_level, tide_score, "20%"),
         water_flow |-> Factor(water_flow, flow_score, "15%")]]

NoFactor == [value |-> 0, normalized |-> 0, weight |-> ""]

NoReport ==
    [river_id |-> 0, river_name |-> "", dri_score |-> 0, risk_level |-> "",
     risk_color |-> "", debris_estimate_kg |-> 0, land_use |-> "",
     debris_types |-> EmptyDict,
     factors |-> [rainfall |-> NoFactor, wind_speed |-> NoFactor,
                  tide_level |-> NoFactor, water_flow |-> NoFactor]]

NoAmount == [num |-> 0, den |-> 70]

---------------------------------------------------------------------------
(* Inputs *)

TenthsOf(S) == {Tenths(n) : n \in S}

\* {'precip_mm': p, 'wind_kph': w}, p and w numbers or None
CurrentOf(p, w) ==
    [is_none |-> FALSE, keys |-> {"precip_mm", "wind_kph"}, precip_mm |-> p,
     wind_kph |-> w]

Current(p, w) == CurrentOf(Tenths(p), Tenths(w))

NoCurrent == [is_none |-> FALSE, keys |-> {}, precip_mm |-> 0, wind_kph |-> 0]

\* 'current': None
NullCurrent == [is_none |-> TRUE, keys |-> {}, precip_mm |-> 0, wind_kph |-> 0]

\* the current-conditions readings: complete ones, one without wind_kph,
\* one without precip_mm, an empty one, readings with a null field, null
Currents ==
    {Current(400, 200), Current(350, 0), Current(0, 0), Current(300, 250),
     Current(301, 251), Current(5000, 800), Current(0, 251)}
    \cup {[is_none |-> FALSE, keys |-> {"precip_mm"},
           precip_mm |-> Tenths(350), wind_kph |-> 0],
          [is_none |-> FALSE, keys |-> {"wind_kph"},
           precip_mm |-> 0, wind_kph |-> Tenths(251)],
          NoCurrent}
    \cup {CurrentOf(NoneNumber, Tenths(200)), CurrentOf(Tenths(400), NoneNumber),
          CurrentOf(NoneNumber, NoneNumber), NullCurrent}

WeatherNone == [is_none |-> TRUE, keys |-> {}, current |-> NoCurrent]

\* None, {}, a body without 'current', bodies with 'current'
Weathers ==
    {WeatherNone,
     [is_none |-> FALSE, keys |-> {}, current |-> NoCurrent],
     [is_none |-> FALSE, keys |-> {"error"}, current |-> NoCurrent]}
    \cup {[is_none |-> FALSE, keys |-> {"location", "current"}, current |-> c] :
            c \in Currents}

\* random.uniform(0, 50), (0, 40), (0, 3), (0, 100)
RainDraws == TenthsOf({0, 500, 301})

WindDraws == TenthsOf({0, 400})

TideDraws == TenthsOf({0, 15, 29, 30})

FlowDraws == TenthsOf({0, 500, 711, 1000})

\* the land_use column of a stored river, the land_use of a JSON river
LandUseValues == LandUses \cup {None, "", "forest"}

CustomProfiles ==
    {Profile(20, 20, 20, 20, 20), Profile(60, 60, 0, 0, 0),
     Profile(0, 0, 0, 0, 0),
     [k \in {"organic", "household"} |-> 50]}

JsonRiver(keys, lu, profile) ==
    [is_dict |-> TRUE, keys |-> {"id", "name"} \cup keys, id |-> 1,
     name |-> "Sungai Klang", land_use |-> lu, debris_profile |-> profile]

Rivers ==
    {to_dict(1, "Sungai Klang", col) : col \in LandUseValues}
    \cup {JsonRiver({"land_use"}, lu, EmptyDict) : lu \in LandUseValues}
    \cup {JsonRiver({}, "", EmptyDict),
          JsonRiver({"land_use", "debris_profile"}, "rural", EmptyDict)}
    \cup {JsonRiver({"land_use", "debris_profile"}, "rural", p) :
            p \in CustomProfiles}
    \cup {[is_dict |-> FALSE, keys |-> {}, id |-> 1, name |-> "Sungai Klang",
           land_use |-> "rural", debris_profile |-> EmptyDict]}

---------------------------------------------------------------------------
(* The database (src/models.py) and the clients of the routes *)

\* the tables after the first start: db.create_all() and the default admin.
\* engine is "postgresql" when DATABASE_URL is set and "sqlite" otherwise;
\* seq holds the values the id sequences of PostgreSQL have handed out
EmptyDb ==
    [engine |-> "sqlite", admins |-> {1}, users |-> {}, rivers |-> {},
     readings |-> {}, watchlist |-> <<>>, requests |-> {}, reports |-> {},
     alerts |-> {},
     seq |-> [rivers |-> 0, readings |-> 0, alerts |-> 0]]

\* PostgreSQL enforces the foreign keys of the tables; SQLite does not
\* unless asked to, and no line of the code asks
ForeignKeys(d) == d.engine = "postgresql"

\* a row of rivers: the columns the routes of this module read
RiverRow(id, name, col) == [id |-> id, name |-> name, land_use |-> col]

Ids(table) == {row.id : row \in table}

\* Model.query.get(id): the row with this id, a row with id 0 for None
Get(table, id) ==
    IF id \in Ids(table)
    THEN CHOOSE row \in table : row.id = id
    ELSE [id |-> 0]

Found(row) == row.id # 0

MaxOf(S) == IF S = {} THEN 0 ELSE CHOOSE m \in S : \A n \in S : n <= m

\* the id of the next row of table t: the next value of the sequence with
\* PostgreSQL, one more than the largest id in the table with SQLite
NextId(d, t) ==
    IF d.engine = "postgresql" THEN d.seq[t] + 1 ELSE MaxOf(Ids(d[t])) + 1

\* table t with one more row, which gets the next id
Insert(d, t, row) ==
    [d EXCEPT ![t] = @ \cup {[row EXCEPT !.id = NextId(d, t)]},
              !.seq[t] = Max(@, NextId(d, t))]

\* the clients: no session, the session of NGO user u, of admin a
Anonymous == [role |-> "anonymous", id |-> 0]

Ngo(u) == [role |-> "ngo", id |-> u]

AdminUser(a) == [role |-> "admin", id |-> a]

\* load_user: current_user is the row of the session, if it still exists
Authenticated(d, who) ==
    \/ who.role = "admin" /\ who.id \in d.admins
    \/ who.role = "ngo" /\ who.id \in d.users

\* whether the decorator lets the request through to the handler
admin_required(d, who) == Authenticated(d, who) /\ who.role = "admin"

ngo_required(d, who) == Authenticated(d, who) /\ who.role = "ngo"

\* a response: the status code and the 'success' of its JSON body ("" when
\* the body has none)
Response(route, who, code, success) ==
    [route |-> route, who |-> who, code |-> code, success |-> success]

NoResponse == Response("", Anonymous, 0, "")

\* the login page the decorators redirect to
Redirect(route, who) == Response(route, who, 302, "")

\* get_river_dri before the request: no river, no weather, no response
NoDri ==
    [pc |-> "idle", river_id |-> 0, river_data |-> JsonRiver({}, "", EmptyDict),
     lookup |-> "", weather_data |-> WeatherNone, stored |-> FALSE,
     code |-> 0, body |-> NoReport]

\* the two threads that serve watchlist requests
Threads == {1, 2}

\* a thread that serves no watchlist request
NoWatch ==
    [pc |-> "idle", route |-> "", who |-> Anonymous, river_id |-> 0,
     code |-> 0, success |-> ""]

NoHttp ==
    [dri |-> NoDri, watch |-> [t \in Threads |-> NoWatch],
     last |-> NoResponse]

\* the locals of a call that has not started
NoFrame ==
    [pc |-> "idle", river |-> JsonRiver({}, "", EmptyDict),
     weather_data |-> WeatherNone,
     rainfall |-> 0, wind_speed |-> 0, tide_level |-> 0, water_flow |-> 0,
     rainfall_score |-> 0, wind_score |-> 0, tide_score |-> 0,
     flow_score |-> 0, dri_score |-> 0, risk_level |-> "", risk_color |-> "",
     debris_amount |-> NoAmount, debris_profile |-> EmptyDict,
     land_use |-> "", adjusted_profile |-> EmptyDict, drawn |-> {},
     raised |-> "", report |-> NoReport]

---------------------------------------------------------------------------
(* The state machine *)

Init ==
    /\ pc = "idle"
    /\ river = JsonRiver({}, "", EmptyDict)
    /\ weather_data = WeatherNone
    /\ rainfall = 0 /\ wind_speed = 0 /\ tide_level = 0 /\ water_flow = 0
    /\ rainfall_score = 0 /\ wind_score = 0 /\ tide_score = 0 /\ flow_score = 0
    /\ dri_score = 0 /\ risk_level = "" /\ risk_color = ""
    /\ debris_amount = NoAmount
    /\ debris_profile = EmptyDict /\ land_use = "" /\ adjusted_profile = EmptyDict
    /\ drawn = {}
    /\ raised = ""
    /\ report = NoReport
    /\ other = NoFrame
    /\ db = EmptyDb
    /\ http = NoHttp

\* a call calculate_dri(r, w)
Call(r, w) ==
    /\ pc = "idle"
    /\ UNCHANGED <<other, db, http>>
    /\ pc' = "inputs"
    /\ river' = r
    /\ weather_data' = w
    /\ UNCHANGED <<rainfall, wind_speed, tide_level, water_flow,
                   rainfall_score, wind_score, tide_score, flow_score,
                   dri_score, risk_level, risk_color, debris_amount,
                   debris_profile, land_use, adjusted_profile, drawn, raised,
                   report>>

\* ReadInputs that draws the tide and the flow only without a reading
ReadInputs_TideFromWeather ==
    /\ pc = "inputs"
    /\ UNCHANGED <<other, db, http>>
    /\ \/ /\ UsesCurrent(weather_data)
          /\ rainfall' = CurrentGet(weather_data, "precip_mm")
          /\ wind_speed' = CurrentGet(weather_data, "wind_kph")
          /\ tide_level' = 0
          /\ water_flow' = rainfall'
          /\ drawn' = {}
       \/ /\ ~UsesCurrent(weather_data)
          /\ rainfall' \in RainDraws
          /\ wind_speed' \in WindDraws
          /\ tide_level' \in TideDraws
          /\ water_flow' \in FlowDraws
          /\ drawn' = {"rainfall", "wind_speed", "tide_level", "water_flow"}
    /\ pc' = "score"
    /\ UNCHANGED <<river, weather_data,
                   rainfall_score, wind_score, tide_score, flow_score,
                   dri_score, risk_level, risk_color, debris_amount,
                   debris_profile, land_use, adjusted_profile, raised, report>>

\* lines 449-457
ReadInputs ==
    /\ pc = "inputs"
    /\ UNCHANGED <<other, db, http>>
    /\ \/ /\ ~ReadRaises(weather_data)
          /\ \/ /\ UsesCurrent(weather_data)
                /\ rainfall' = CurrentGet(weather_data, "precip_mm")
                /\ wind_speed' = CurrentGet(weather_data, "wind_kph")
                /\ drawn' = {"tide_level", "water_flow"}
             \/ /\ ~UsesCurrent(weather_data)
                /\ rainfall' \in RainDraws
                /\ wind_speed' \in WindDraws
                /\ drawn' = {"rainfall", "wind_speed", "tide_level",
                             "water_flow"}
          /\ tide_level' \in TideDraws
          /\ water_flow' \in FlowDraws
          /\ pc' = "score"
          /\ UNCHANGED raised
       \/ /\ ReadRaises(weather_data)
          /\ raised' = "AttributeError"
          /\ pc' = "raised"
          /\ UNCHANGED <<rainfall, wind_speed, tide_level, water_flow, drawn>>
    /\ UNCHANGED <<river, weather_data,
                   rainfall_score, wind_score, tide_score, flow_score,
                   dri_score, risk_level, risk_color, debris_amount,
                   debris_profile, land_use, adjusted_profile, report>>

\* lines 459-492
Score ==
    /\ pc = "score"
    /\ UNCHANGED <<other, db, http>>
    /\ \/ /\ ~ScoreRaises(rainfall, wind_speed)
          /\ rainfall_score' = Normalize(rainfall, MAX_RAINFALL)
          /\ wind_score' = Normalize(wind_speed, MAX_WIND)
          /\ tide_score' = Normalize(tide_level, MAX_TIDE)
          /\ flow_score' = Normalize(water_flow, MAX_FLOW)
          /\ dri_score' = WeightedSum(rainfall_score', wind_score',
                                      tide_score', flow_score')
          /\ risk_level' = RiskTier(dri_score').level
          /\ risk_color' = RiskTier(dri_score').color
          /\ debris_amount' = DebrisAmount(dri_score')
          /\ pc' = "profile"
          /\ UNCHANGED raised
       \/ /\ ScoreRaises(rainfall, wind_speed)
          /\ rainfall_score' = IF rainfall = NoneNumber THEN rainfall_score
                                ELSE Normalize(rainfall, MAX_RAINFALL)
          /\ raised' = "TypeError"
          /\ pc' = "raised"
          /\ UNCHANGED <<wind_score, tide_score, flow_score, dri_score,
                         risk_level, risk_color, debris_amount>>
    /\ UNCHANGED <<river, weather_data, rainfall, wind_speed, tide_level,
                   water_flow, debris_profile, land_use, adjusted_profile,
                   drawn, report>>

\* lines 494-507
SelectProfile ==
    /\ pc = "profile"
    /\ UNCHANGED <<other, db, http>>
    /\ land_use' = RiverLandUse(river)
    /\ debris_profile' = BaseProfile(RiverProfile(river), RiverLandUse(river))
    /\ pc' = "adjust"
    /\ UNCHANGED <<river, weather_data, rainfall, wind_speed, tide_level,
                   water_flow, rainfall_score, wind_score, tide_score,
                   flow_score, dri_score, risk_level, risk_color,
                   debris_amount, adjusted_profile, drawn, raised, report>>

\* line 510
Adjust ==
    /\ pc = "adjust"
    /\ UNCHANGED <<other, db, http>>
    /\ \E up \in SUBSET TieKeys(Adjusted(debris_profile, rainfall, wind_speed)) :
          LET res == adjust_debris_profile(debris_profile, rainfall,
                                           wind_speed, up)
          IN  /\ raised' = res.raised
              /\ adjusted_profile' = res.value
              /\ pc' = IF res.raised = "" THEN "return" ELSE "raised"
    /\ debris_profile' = BaseAfter(debris_profile, rainfall, wind_speed)
    /\ river' = RiverAfter(river, debris_profile')
    /\ UNCHANGED <<weather_data, rainfall, wind_speed, tide_level,
                   water_flow, rainfall_score, wind_score, tide_score,
                   flow_score, dri_score, risk_level, risk_color,
                   debris_amount, land_use, drawn, report>>

\* lines 512-544
Return ==
    /\ pc = "return"
    /\ UNCHANGED <<other, db, http>>
    /\ \E up \in BOOLEAN : report' = Report(up)
    /\ pc' = "returned"
    /\ UNCHANGED <<river, weather_data, rainfall, wind_speed, tide_level,
                   water_flow, rainfall_score, wind_score, tide_score,
                   flow_score, dri_score, risk_level, risk_color,
                   debris_amount, debris_profile, land_use, adjusted_profile,
                   drawn, raised>>

\* the caller is done with the result; the next call starts afresh
Done ==
    /\ pc \in {"returned", "raised"}
    /\ UNCHANGED <<other, db, http>>
    /\ pc' = "idle"
    /\ river' = JsonRiver({}, "", EmptyDict)
    /\ weather_data' = WeatherNone
    /\ rainfall' = 0 /\ wind_speed' = 0 /\ tide_level' = 0 /\ water_flow' = 0
    /\ rainfall_score' = 0 /\ wind_score' = 0 /\ tide_score' = 0
    /\ flow_score' = 0
    /\ dri_score' = 0 /\ risk_level' = "" /\ risk_color' = ""
    /\ debris_amount' = NoAmount
    /\ debris_profile' = EmptyDict /\ land_use' = ""
    /\ adjusted_profile' = EmptyDict
    /\ drawn' = {}
    /\ raised' = ""
    /\ report' = NoReport

Next ==
    \/ \E r \in Rivers, w \in Weathers : Call(r, w)
    \/ ReadInputs
    \/ Score
    \/ SelectProfile
    \/ Adjust
    \/ Return
    \/ Done

Spec == Init /\ [][Next]_vars

---------------------------------------------------------------------------
(* The scoring of lines 459-544 over a grid of factor values *)

MaxRainStep == 11

MaxWindStep == 9

\* rainfall in steps of 5 mm, wind speed in steps of 5 kph, and values at
\* the thresholds; beyond the reference maxima only a weather reading goes
RainGrid ==
    {Tenths(50 * i) : i \in 0..MaxRainStep} \cup TenthsOf({301, 375, 5000})

WindGrid == {Tenths(50 * i) : i \in 0..MaxWindStep} \cup TenthsOf({160, 251})

TideGrid == TenthsOf({0, 3, 15, 22, 29, 30})

FlowGrid == TenthsOf({0, 200, 500, 711, 999, 1000})

\* the reading {'current': {'precip_mm': p, 'wind_kph': w}}
Reading(p, w) ==
    [is_none |-> FALSE, keys |-> {"location", "current"},
     current |-> CurrentOf(p, w)]

\* calculate_dri at line 459, called with a reading
InitScore ==
    /\ pc = "score"
    /\ river = JsonRiver({}, "", EmptyDict)
    /\ rainfall \in RainGrid
    /\ wind_speed \in WindGrid
    /\ weather_data = Reading(rainfall, wind_speed)
    /\ tide_level \in TideGrid
    /\ water_flow \in FlowGrid
    /\ rainfall_score = 0 /\ wind_score = 0 /\ tide_score = 0 /\ flow_score = 0
    /\ dri_score = 0 /\ risk_level = "" /\ risk_color = ""
    /\ debris_amount = NoAmount
    /\ debris_profile = EmptyDict /\ land_use = "" /\ adjusted_profile = EmptyDict
    /\ drawn = {"tide_level", "water_flow"}
    /\ raised = ""
    /\ report = NoReport
    /\ other = NoFrame
    /\ db = EmptyDb
    /\ http = NoHttp

NextScore == Score \/ SelectProfile \/ Adjust \/ Return

SpecScore == InitScore /\ [][NextScore]_vars

---------------------------------------------------------------------------
(* adjust_debris_profile over a grid of base profiles *)

MaxPctStep == 4

PctValues == {16 * i : i \in 0..MaxPctStep}

\* the table profiles, the profiles a river may carry, with all five keys
\* or without some
AdjustProfiles ==
    {profiles[lu] : lu \in LandUses}
    \cup [DebrisTypes -> PctValues]
    \cup {[k \in {"organic", "household"} |-> 50],
          [k \in {"plastic", "organic"} |-> 30],
          [k \in {"plastic", "others"} |-> 50]}

AdjustRain == TenthsOf({300, 350})

AdjustWind == TenthsOf({0, 250, 251})

\* calculate_dri at line 510, called with a reading for a river that
\* carries the profile
InitAdjust ==
    /\ pc = "adjust"
    /\ debris_profile \in AdjustProfiles
    /\ river = JsonRiver({"debris_profile"}, "", debris_profile)
    /\ rainfall \in AdjustRain
    /\ wind_speed \in AdjustWind
    /\ weather_data = Reading(rainfall, wind_speed)
    /\ tide_level = 0
    /\ water_flow = 0
    /\ rainfall_score = Normalize(rainfall, MAX_RAINFALL)
    /\ wind_score = Normalize(wind_speed, MAX_WIND)
    /\ tide_score = 0
    /\ flow_score = 0
    /\ dri_score = WeightedSum(rainfall_score, wind_score, 0, 0)
    /\ risk_level = RiskTier(dri_score).level
    /\ risk_color = RiskTier(dri_score).color
    /\ debris_amount = DebrisAmount(dri_score)
    /\ land_use = "urban"
    /\ adjusted_profile = EmptyDict
    /\ drawn = {"tide_level", "water_flow"}
    /\ raised = ""
    /\ report = NoReport
    /\ other = NoFrame
    /\ db = EmptyDb
    /\ http = NoHttp

NextAdjust == Adjust \/ Return

SpecAdjust == InitAdjust /\ [][NextAdjust]_vars

---------------------------------------------------------------------------
(* Two calls of calculate_dri in two threads *)

\* the locals of the call of the running thread
Frame ==
    [pc |-> pc, river |-> river, weather_data |-> weather_data,
     rainfall |-> rainfall, wind_speed |-> wind_speed,
     tide_level |-> tide_level, water_flow |-> water_flow,
     rainfall_score |-> rainfall_score, wind_score |-> wind_score,
     tide_score |-> tide_score, flow_score |-> flow_score,
     dri_score |-> dri_score, risk_level |-> risk_level,
     risk_color |-> risk_color, debris_amount |-> debris_amount,
     debris_profile |-> debris_profile, land_use |-> land_use,
     adjusted_profile |-> adjusted_profile, drawn |-> drawn,
     raised |-> raised, report |-> report]

\* Switch with dri_score a variable the two calls share
Switch_SharedScore ==
    /\ other.pc # "idle"
    /\ UNCHANGED <<db, http>>
    /\ other' = Frame
    /\ pc' = other.pc
    /\ river' = other.river
    /\ weather_data' = other.weather_data
    /\ rainfall' = other.rainfall
    /\ wind_speed' = other.wind_speed
    /\ tide_level' = other.tide_level
    /\ water_flow' = other.water_flow
    /\ rainfall_score' = other.rainfall_score
    /\ wind_score' = other.wind_score
    /\ tide_score' = other.tide_score
    /\ flow_score' = other.flow_score
    /\ dri_score' = dri_score
    /\ risk_level' = other.risk_level
    /\ risk_color' = other.risk_color
    /\ debris_amount' = other.debris_amount
    /\ debris_profile' = other.debris_profile
    /\ land_use' = other.land_use
    /\ adjusted_profile' = other.adjusted_profile
    /\ drawn' = other.drawn
    /\ raised' = other.raised
    /\ report' = other.report

\* the running thread is suspended and the waiting one resumed: each call
\* has its own arguments and locals (lines 445-544 assign to nothing else)
Switch ==
    /\ other.pc # "idle"
    /\ UNCHANGED <<db, http>>
    /\ other' = Frame
    /\ pc' = other.pc
    /\ river' = other.river
    /\ weather_data' = other.weather_data
    /\ rainfall' = other.rainfall
    /\ wind_speed' = other.wind_speed
    /\ tide_level' = other.tide_level
    /\ water_flow' = other.water_flow
    /\ rainfall_score' = other.rainfall_score
    /\ wind_score' = other.wind_score
    /\ tide_score' = other.tide_score
    /\ flow_score' = other.flow_score
    /\ dri_score' = other.dri_score
    /\ risk_level' = other.risk_level
    /\ risk_color' = other.risk_color
    /\ debris_amount' = other.debris_amount
    /\ debris_profile' = other.debris_profile
    /\ land_use' = other.land_use
    /\ adjusted_profile' = other.adjusted_profile
    /\ drawn' = other.drawn
    /\ raised' = other.raised
    /\ report' = other.report

\* the call of a thread that enters calculate_dri with the arguments c
StartFrame(c) ==
    [NoFrame EXCEPT !.pc = "inputs", !.river = c[1], !.weather_data = c[2]]

\* two requests: a river from the JSON file with a profile of its own in
\* rain and wind, a stored coastal river in calm weather
ConcCalls ==
    {<<JsonRiver({"land_use", "debris_profile"}, "rural",
                 Profile(20, 20, 20, 20, 20)),
       Reading(Tenths(301), Tenths(251))>>,
     <<to_dict(2, "Sungai Gombak", "coastal"),
       Reading(Tenths(0), Tenths(200))>>}

\* both threads at line 449
InitConc ==
    \E c1 \in ConcCalls, c2 \in ConcCalls :
        /\ pc = "inputs"
        /\ river = c1[1]
        /\ weather_data = c1[2]
        /\ rainfall = 0 /\ wind_speed = 0 /\ tide_level = 0 /\ water_flow = 0
        /\ rainfall_score = 0 /\ wind_score = 0 /\ tide_score = 0
        /\ flow_score = 0
        /\ dri_score = 0 /\ risk_level = "" /\ risk_color = ""
        /\ debris_amount = NoAmount
        /\ debris_profile = EmptyDict /\ land_use = ""
        /\ adjusted_profile = EmptyDict
        /\ drawn = {}
        /\ raised = ""
        /\ report = NoReport
        /\ other = StartFrame(c2)
        /\ db = EmptyDb
        /\ http = NoHttp

NextConc ==
    ReadInputs \/ Score \/ SelectProfile \/ Adjust \/ Return \/ Switch

SpecConc == InitConc /\ [][NextConc]_vars

---------------------------------------------------------------------------
(* get_river_dri (src/app.py, lines 386-443), with delete_river and        *)
(* clear_rivers issued while the request is served                         *)

\* the variables of calculate_dri
locals == <<pc, river, weather_data, rainfall, wind_speed, tide_level,
            water_flow, rainfall_score, wind_score, tide_score, flow_score,
            dri_score, risk_level, risk_color, debris_amount,
            debris_profile, land_use, adjusted_profile, drawn, raised,
            report, other>>

\* a river of data/rivers.json: besides id and name the keys
\* migrate_json_to_db reads (lines 139-151)
FileRiver(id, name) ==
    [JsonRiver({"latitude", "longitude", "info", "image"}, "", EmptyDict)
        EXCEPT !.id = id, !.name = name]

\* load_rivers_from_json: a river that was never migrated to the table
JsonFile == {FileRiver(3, "Sungai Muar")}

\* lines 389-394: whether the table or the file has the river
RiverKnown(d, id) == id \in Ids(d.rivers) \/ id \in Ids(JsonFile)

\* lines 389-397: river.to_dict() of the row, else the river of the file
RiverData(d, id) ==
    IF id \in Ids(d.rivers)
    THEN LET row == Get(d.rivers, id)
         IN  to_dict(row.id, row.name, row.land_use)
    ELSE Get(JsonFile, id)

\* what the request to the weather API ends in: requests.get raises (no
\* connection, the 10 s timeout), a status other than 200 with its error
\* body, a 200 whose body is not JSON, a 200 with a JSON body
WeatherReplies ==
    {[outcome |-> "exception", body |-> WeatherNone],
     [outcome |-> "status",
      body |-> [is_none |-> FALSE, keys |-> {"error"}, current |-> NoCurrent]],
     [outcome |-> "undecodable", body |-> WeatherNone],
     [outcome |-> "ok", body |-> Reading(Tenths(400), Tenths(200))],
     [outcome |-> "ok",
      body |-> [is_none |-> FALSE, keys |-> {"location", "current"},
                current |-> NullCurrent]]}

\* WeatherLookup that decodes the body whatever the status
WeatherLookup_AnyStatus(reply) ==
    IF reply.outcome \in {"ok", "status"} THEN reply.body ELSE WeatherNone

\* lines 400-416: weather_data after the try block
WeatherLookup(reply) ==
    IF reply.outcome = "ok" THEN reply.body ELSE WeatherNone

\* ReadingOf with tide_level taken from the water_flow factor
ReadingOf_TideFromFlow(river_id, dri_data) ==
    [id |-> 0,
     river_id |-> river_id,
     dri_score |-> dri_data.dri_score,
     risk_level |-> dri_data.risk_level,
     rainfall |-> dri_data.factors.rainfall.value,
     wind_speed |-> dri_data.factors.wind_speed.value,
     tide_level |-> dri_data.factors.water_flow.value,
     water_flow |-> dri_data.factors.water_flow.value,
     estimated_debris_kg |-> dri_data.debris_estimate_kg]

\* lines 421-430: the DRIReading row of a report (id 0: not yet inserted)
ReadingOf(river_id, dri_data) ==
    [id |-> 0,
     river_id |-> river_id,
     dri_score |-> dri_data.dri_score,
     risk_level |-> dri_data.risk_level,
     rainfall |-> dri_data.factors.rainfall.value,
     wind_speed |-> dri_data.factors.wind_speed.value,
     tide_level |-> dri_data.factors.tide_level.value,
     water_flow |-> dri_data.factors.water_flow.value,
     estimated_debris_kg |-> dri_data.debris_estimate_kg]

\* the frame of calculate_dri is gone once get_river_dri has its result
EndCall ==
    /\ pc' = "idle"
    /\ river' = JsonRiver({}, "", EmptyDict)
    /\ weather_data' = WeatherNone
    /\ rainfall' = 0 /\ wind_speed' = 0 /\ tide_level' = 0 /\ water_flow' = 0
    /\ rainfall_score' = 0 /\ wind_score' = 0 /\ tide_score' = 0
    /\ flow_score' = 0
    /\ dri_score' = 0 /\ risk_level' = "" /\ risk_color' = ""
    /\ debris_amount' = NoAmount
    /\ debris_profile' = EmptyDict /\ land_use' = ""
    /\ adjusted_profile' = EmptyDict
    /\ drawn' = {}
    /\ raised' = ""
    /\ report' = NoReport
    /\ UNCHANGED other

\* lines 386-416: the river is looked up and the weather API asked; an
\* unknown river is answered with 404
DriLookup(id, reply) ==
    /\ http.dri.pc = "idle"
    /\ pc = "idle"
    /\ IF RiverKnown(db, id)
       THEN http' = [http EXCEPT !.dri =
                        [@ EXCEPT !.pc = "call",
                                  !.river_id = id,
                                  !.river_data = RiverData(db, id),
                                  !.lookup = reply.outcome,
                                  !.weather_data = WeatherLookup(reply)]]
       ELSE http' = [http EXCEPT !.dri =
                        [@ EXCEPT !.pc = "done", !.river_id = id,
                                  !.code = 404]]
    /\ UNCHANGED db
    /\ UNCHANGED locals

\* line 418: calculate_dri(river_data, weather_data) is entered
DriCall ==
    /\ http.dri.pc = "call"
    /\ Call(http.dri.river_data, http.dri.weather_data)

\* lines 420-437: the reading is added and committed; the insert fails when
\* the database does (fails) and when the database enforces the foreign key
\* and rivers has no row river_id; a failure is rolled back; the report is
\* the response either way
DriStore(fails) ==
    /\ http.dri.pc = "call"
    /\ pc = "returned"
    /\ LET reading == ReadingOf(http.dri.river_id, report)
           rejected == /\ ForeignKeys(db)
                       /\ http.dri.river_id \notin Ids(db.rivers)
           ok == ~fails /\ ~rejected
       IN  /\ db' = IF ok THEN Insert(db, "readings", reading) ELSE db
           /\ http' = [http EXCEPT !.dri =
                          [@ EXCEPT !.pc = "done", !.stored = ok,
                                    !.code = 200, !.body = report]]
    /\ EndCall

\* lines 439-441: calculate_dri raised; the response is the error, 500
DriError ==
    /\ http.dri.pc = "call"
    /\ pc = "raised"
    /\ http' = [http EXCEPT !.dri = [@ EXCEPT !.pc = "done", !.code = 500]]
    /\ UNCHANGED db
    /\ EndCall

\* the rows that stop db.session.delete(river): the ORM sets the river_id
\* of the reports and watchlist rows of the river to NULL, which their
\* NOT NULL columns refuse
RiverHeld(d, id) ==
    \/ \E row \in d.reports : row.river_id = id
    \/ \E p \in DOMAIN d.watchlist : p[2] = id /\ d.watchlist[p] > 0

\* lines 684-688: the readings of the river and the river are deleted; the
\* ORM sets created_river_id and the river_id of alerts to NULL (0)
WithoutRiver(d, id) ==
    [d EXCEPT !.readings = {row \in @ : row.river_id # id},
              !.rivers = {row \in @ : row.id # id},
              !.requests = {IF row.created_river_id = id
                            THEN [row EXCEPT !.created_river_id = 0]
                            ELSE row : row \in @},
              !.alerts = {IF row.river_id = id
                          THEN [row EXCEPT !.river_id = 0]
                          ELSE row : row \in @}]

\* delete_river (lines 674-694) behind admin_required (lines 64-75)
DeleteRiver(who, id, fails) ==
    /\ IF ~admin_required(db, who)
       THEN /\ http' = [http EXCEPT !.last = Redirect("delete_river", who)]
            /\ UNCHANGED db
       ELSE IF id \notin Ids(db.rivers)
       THEN /\ http' = [http EXCEPT !.last =
                           Response("delete_river", who, 404, "false")]
            /\ UNCHANGED db
       ELSE IF fails \/ RiverHeld(db, id)
       THEN /\ http' = [http EXCEPT !.last =
                           Response("delete_river", who, 500, "false")]
            /\ UNCHANGED db
       ELSE /\ http' = [http EXCEPT !.last =
                           Response("delete_river", who, 200, "true")]
            /\ db' = WithoutRiver(db, id)
    /\ UNCHANGED locals

\* the rows that stop DELETE FROM rivers where foreign keys are enforced
RiversHeld(d) ==
    \/ \E row \in d.reports : row.river_id \in Ids(d.rivers)
    \/ \E p \in DOMAIN d.watchlist :
          p[2] \in Ids(d.rivers) /\ d.watchlist[p] > 0
    \/ \E row \in d.requests : row.created_river_id \in Ids(d.rivers)
    \/ \E row \in d.alerts : row.river_id \in Ids(d.rivers)

\* clear_rivers (lines 871-883): no decorator; every reading and every
\* river is deleted by a bulk DELETE
ClearRivers(who, fails) ==
    /\ IF fails \/ (ForeignKeys(db) /\ RiversHeld(db))
       THEN /\ http' = [http EXCEPT !.last =
                           Response("clear_rivers", who, 500, "")]
            /\ UNCHANGED db
       ELSE /\ http' = [http EXCEPT !.last =
                           Response("clear_rivers", who, 200, "")]
            /\ db' = [db EXCEPT !.readings = {}, !.rivers = {}]
    /\ UNCHANGED locals

\* the requests get_river_dri is asked for: a river of the table, a river
\* of the file only, a river nobody has
DriIds == {1, 3, 4}

\* a database with one river and an earlier reading of it
DriDb(engine) ==
    [EmptyDb EXCEPT
        !.engine = engine,
        !.rivers = {RiverRow(1, "Sungai Klang", "coastal")},
        !.readings = {[id |-> 1, river_id |-> 1, dri_score |-> 0,
                       risk_level |-> "Very Low", rainfall |-> 0,
                       wind_speed |-> 0, tide_level |-> 0, water_flow |-> 0,
                       estimated_debris_kg |-> 0]},
        !.seq = [rivers |-> 1, readings |-> 1, alerts |-> 0]]

InitDri ==
    /\ pc = "idle"
    /\ river = JsonRiver({}, "", EmptyDict)
    /\ weather_data = WeatherNone
    /\ rainfall = 0 /\ wind_speed = 0 /\ tide_level = 0 /\ water_flow = 0
    /\ rainfall_score = 0 /\ wind_score = 0 /\ tide_score = 0 /\ flow_score = 0
    /\ dri_score = 0 /\ risk_level = "" /\ risk_color = ""
    /\ debris_amount = NoAmount
    /\ debris_profile = EmptyDict /\ land_use = "" /\ adjusted_profile = EmptyDict
    /\ drawn = {}
    /\ raised = ""
    /\ report = NoReport
    /\ other = NoFrame
    /\ db \in {DriDb(engine) : engine \in {"sqlite", "postgresql"}}
    /\ http = NoHttp

\* one request for a DRI report, while the admin deletes the river and a
\* client without a session clears the rivers
NextDri ==
    \/ \E id \in DriIds, reply \in WeatherReplies : DriLookup(id, reply)
    \/ DriCall
    \/ ReadInputs
    \/ Score
    \/ SelectProfile
    \/ Adjust
    \/ Return
    \/ \E fails \in BOOLEAN : DriStore(fails)
    \/ DriError
    \/ DeleteRiver(AdminUser(1), 1, FALSE)
    \/ ClearRivers(Anonymous, FALSE)

SpecDri == InitDri /\ [][NextDri]_vars

---------------------------------------------------------------------------
(* The routes that delete and the routes that review (src/app.py)          *)

\* the most rivers the reviews of one request create, and the largest id
\* an alert gets, in the explored runs
MaxCreated == 2

MaxAlertId == 2

\* a JSON body {'status': s, <notes>: n} or one without the key 'status';
\* notes is 'admin_response' or 'admin_notes'
Body(keys, status, notes) ==
    [keys |-> keys, status |-> status, notes |-> notes]

\* data.get(key, default), the notes of either name under "notes"
DataGet(data, key, default) ==
    IF key = "status"
    THEN IF "status" \in data.keys THEN data.status ELSE default
    ELSE IF key \in data.keys THEN data.notes ELSE default

\* a row of location_requests; created is not a column: it lists the ids
\* of the rivers the reviews of this request have created, oldest first
RequestRow(id, user_id, location_name, col) ==
    [id |-> id, user_id |-> user_id, location_name |-> location_name,
     land_use |-> col, status |-> "pending", admin_response |-> None,
     reviewed_by |-> 0, created_river_id |-> 0, created |-> <<>>]

\* a row of debris_reports
ReportRow(id, user_id, river_id) ==
    [id |-> id, user_id |-> user_id, river_id |-> river_id,
     status |-> "pending", admin_notes |-> None, reviewed_by |-> 0]

\* a row of alerts (id 0: not yet inserted)
AlertRow(user_id, alert_type, river_id, report_id, request_id) ==
    [id |-> 0, user_id |-> user_id, alert_type |-> alert_type,
     river_id |-> river_id, report_id |-> report_id,
     request_id |-> request_id]

\* the rows that stop db.session.delete(user): the ORM sets the user_id of
\* the rows of the user to NULL, which their NOT NULL columns refuse
UserHeld(d, id) ==
    \/ \E row \in d.reports : row.user_id = id
    \/ \E row \in d.requests : row.user_id = id
    \/ \E row \in d.alerts : row.user_id = id
    \/ \E p \in DOMAIN d.watchlist : p[1] = id /\ d.watchlist[p] > 0

\* delete_user (lines 754-771) behind admin_required
DeleteUser(who, id, fails) ==
    /\ IF ~admin_required(db, who)
       THEN /\ http' = [http EXCEPT !.last = Redirect("delete_user", who)]
            /\ UNCHANGED db
       ELSE IF id \notin db.users
       THEN /\ http' = [http EXCEPT !.last =
                           Response("delete_user", who, 404, "false")]
            /\ UNCHANGED db
       ELSE IF fails \/ UserHeld(db, id)
       THEN /\ http' = [http EXCEPT !.last =
                           Response("delete_user", who, 500, "false")]
            /\ UNCHANGED db
       ELSE /\ http' = [http EXCEPT !.last =
                           Response("delete_user", who, 200, "true")]
            /\ db' = [db EXCEPT !.users = @ \ {id}]
    /\ UNCHANGED locals

\* the rows that stop DELETE FROM users where foreign keys are enforced
UsersHeld(d) ==
    \/ \E row \in d.reports : row.user_id \in d.users
    \/ \E row \in d.requests : row.user_id \in d.users
    \/ \E row \in d.alerts : row.user_id \in d.users
    \/ \E p \in DOMAIN d.watchlist : p[1] \in d.users /\ d.watchlist[p] > 0

\* reset_database (lines 859-869): no decorator; every NGO user is deleted
\* by a bulk DELETE
ResetDatabase(who, fails) ==
    /\ IF fails \/ (ForeignKeys(db) /\ UsersHeld(db))
       THEN /\ http' = [http EXCEPT !.last =
                           Response("reset_database", who, 500, "")]
            /\ UNCHANGED db
       ELSE /\ http' = [http EXCEPT !.last =
                           Response("reset_database", who, 200, "")]
            /\ db' = [db EXCEPT !.users = {}]
    /\ UNCHANGED locals

\* table t with the row of this id replaced
Update(d, t, row) ==
    [d EXCEPT ![t] = {IF old.id = row.id THEN row ELSE old : old \in @}]

\* lines 1401-1404: the request as the review sets it
Reviewed(row, who, new_status, admin_response) ==
    [row EXCEPT !.status = new_status, !.admin_response = admin_response,
                !.reviewed_by = who.id]

\* lines 1407-1420: the river of an approved request is added and flushed
\* and the request refers to it
Approved(d, row, who, new_status, admin_response) ==
    LET river_id == NextId(d, "rivers")
        created == Insert(d, "rivers",
                          RiverRow(0, row.location_name, row.land_use))
    IN  Update(created, "requests",
               [Reviewed(row, who, new_status, admin_response) EXCEPT
                   !.created_river_id = river_id,
                   !.created = Append(@, river_id)])

\* review_location_request (lines 1388-1443) behind admin_required; fails
\* is the commit that fails (1 or 2), 0 when none does
ReviewRequest(who, id, data, fails) ==
    /\ \A row \in db.requests : Len(row.created) < MaxCreated
    /\ NextId(db, "alerts") <= MaxAlertId
    /\ LET route == "review_location_request"
           row == Get(db.requests, id)
           new_status == DataGet(data, "status", None)
           admin_response == DataGet(data, "admin_response", "")
           \* line 1407
           creates == new_status = "approved"
           \* line 1415: loc_request.user.ngo_name of a user that is gone
           no_user == creates /\ row.user_id \notin db.users
           first == IF creates
                    THEN Approved(db, row, who, new_status, admin_response)
                    ELSE Update(db, "requests",
                                Reviewed(row, who, new_status,
                                         admin_response))
           \* line 1432: None.capitalize()
           no_title == new_status = None
           \* alert_type f'request_{new_status}'
           alert == AlertRow(row.user_id, <<"request", new_status>>, 0, 0,
                             row.id)
       IN  IF ~admin_required(db, who)
           THEN /\ http' = [http EXCEPT !.last = Redirect(route, who)]
                /\ UNCHANGED db
           ELSE IF ~Found(row)
           THEN /\ http' = [http EXCEPT !.last =
                               Response(route, who, 404, "false")]
                /\ UNCHANGED db
           ELSE IF no_user \/ fails = 1
           THEN /\ http' = [http EXCEPT !.last =
                               Response(route, who, 500, "false")]
                /\ UNCHANGED db
           ELSE IF no_title \/ fails = 2
           THEN /\ http' = [http EXCEPT !.last =
                               Response(route, who, 500, "false")]
                /\ db' = first
           ELSE /\ http' = [http EXCEPT !.last =
                               Response(route, who, 200, "true")]
                /\ db' = Insert(first, "alerts", alert)
    /\ UNCHANGED locals

\* review_report (lines 1334-1367) behind admin_required
ReviewReport(who, id, data, fails) ==
    /\ NextId(db, "alerts") <= MaxAlertId
    /\ LET route == "review_report"
           row == Get(db.reports, id)
           first == Update(db, "reports",
                       [row EXCEPT
                           !.status = DataGet(data, "status", row.status),
                           !.admin_notes =
                               DataGet(data, "admin_notes", row.admin_notes),
                           !.reviewed_by = who.id])
           \* line 1355: report.river.name of a river that is gone
           no_river == row.river_id \notin Ids(db.rivers)
           alert == AlertRow(row.user_id, <<"report", "reviewed">>,
                             row.river_id, row.id, 0)
       IN  IF ~admin_required(db, who)
           THEN /\ http' = [http EXCEPT !.last = Redirect(route, who)]
                /\ UNCHANGED db
           ELSE IF ~Found(row)
           THEN /\ http' = [http EXCEPT !.last =
                               Response(route, who, 404, "false")]
                /\ UNCHANGED db
           ELSE IF fails = 1
           THEN /\ http' = [http EXCEPT !.last =
                               Response(route, who, 500, "false")]
                /\ UNCHANGED db
           ELSE IF no_river \/ fails = 2
           THEN /\ http' = [http EXCEPT !.last =
                               Response(route, who, 500, "false")]
                /\ db' = first
           ELSE /\ http' = [http EXCEPT !.last =
                               Response(route, who, 200, "true")]
                /\ db' = Insert(first, "alerts", alert)
    /\ UNCHANGED locals

\* the clients of the explored runs
Clients == {Anonymous, Ngo(1), AdminUser(1)}

\* a database with two NGO users and two rivers, one with a reading
DeleteDb(engine) ==
    [DriDb(engine) EXCEPT
        !.users = {1, 2},
        !.rivers = @ \cup {RiverRow(2, "Sungai Gombak", "urban")},
        !.seq = [@ EXCEPT !.rivers = 2]]

InitDelete ==
    /\ pc = "idle"
    /\ river = JsonRiver({}, "", EmptyDict)
    /\ weather_data = WeatherNone
    /\ rainfall = 0 /\ wind_speed = 0 /\ tide_level = 0 /\ water_flow = 0
    /\ rainfall_score = 0 /\ wind_score = 0 /\ tide_score = 0 /\ flow_score = 0
    /\ dri_score = 0 /\ risk_level = "" /\ risk_color = ""
    /\ debris_amount = NoAmount
    /\ debris_profile = EmptyDict /\ land_use = "" /\ adjusted_profile = EmptyDict
    /\ drawn = {}
    /\ raised = ""
    /\ report = NoReport
    /\ other = NoFrame
    /\ db \in {DeleteDb(engine) : engine \in {"sqlite", "postgresql"}}
    /\ http = NoHttp

\* the routes that delete rivers, readings or users, asked by any client
NextDelete ==
    \/ \E who \in Clients, id \in {1, 2}, fails \in BOOLEAN :
          DeleteRiver(who, id, fails)
    \/ \E who \in Clients, id \in {1, 2}, fails \in BOOLEAN :
          DeleteUser(who, id, fails)
    \/ \E who \in Clients, fails \in BOOLEAN : ResetDatabase(who, fails)
    \/ \E who \in Clients, fails \in BOOLEAN : ClearRivers(who, fails)

SpecDelete == InitDelete /\ [][NextDelete]_vars

\* the bodies of the reviews of a request: approve, reject, no status
RequestReviews ==
    {Body({"status", "admin_response"}, "approved", "noted"),
     Body({"status", "admin_response"}, "rejected", "noted"),
     Body({"admin_response"}, None, "noted")}

\* the body of the review of a report
ReportReviews == {Body({"status", "admin_notes"}, "reviewed", "seen")}

\* a database with two NGO users, a river with a reading, and a pending
\* location request and a pending debris report of user 1
ReviewDb(engine) ==
    [DriDb(engine) EXCEPT
        !.users = {1, 2},
        !.requests = {RequestRow(1, 1, "Sungai Baru", "rural")},
        !.reports = {ReportRow(1, 1, 1)}]

InitReview ==
    /\ pc = "idle"
    /\ river = JsonRiver({}, "", EmptyDict)
    /\ weather_data = WeatherNone
    /\ rainfall = 0 /\ wind_speed = 0 /\ tide_level = 0 /\ water_flow = 0
    /\ rainfall_score = 0 /\ wind_score = 0 /\ tide_score = 0 /\ flow_score = 0
    /\ dri_score = 0 /\ risk_level = "" /\ risk_color = ""
    /\ debris_amount = NoAmount
    /\ debris_profile = EmptyDict /\ land_use = "" /\ adjusted_profile = EmptyDict
    /\ drawn = {}
    /\ raised = ""
    /\ report = NoReport
    /\ other = NoFrame
    /\ db \in {ReviewDb(engine) : engine \in {"sqlite", "postgresql"}}
    /\ http = NoHttp

\* the reviews of the request and of the report, asked by an NGO user and
\* by the admin, while a client without a session clears rivers and users
NextReview ==
    \/ \E who \in {Ngo(1), AdminUser(1)}, data \in RequestReviews,
          fails \in {0, 1, 2} : ReviewRequest(who, 1, data, fails)
    \/ \E who \in {Ngo(1), AdminUser(1)}, data \in ReportReviews,
          fails \in {0, 1, 2} : ReviewReport(who, 1, data, fails)
    \/ ClearRivers(Anonymous, FALSE)
    \/ ResetDatabase(Anonymous, FALSE)

SpecReview == InitReview /\ [][NextReview]_vars

---------------------------------------------------------------------------
(* add_to_watchlist and remove_from_watchlist (src/app.py, lines 977-1025) *)
(* served by two threads                                                   *)

\* the (user_id, river_id) pairs of the explored runs; watchlist[p] is the
\* number of rows the table holds for the pair p
WatchPairs == {1, 2} \X {1, 2}

\* unique_user_river_watch switched off
unique_user_river_watch_Off(d, user_id, river_id) == TRUE

\* models.py lines 309-310: whether the constraint admits one more row
unique_user_river_watch(d, user_id, river_id) ==
    d.watchlist[<<user_id, river_id>>] = 0

\* Watchlist.query.filter_by(user_id, river_id).first() finds a row
Watched(d, user_id, river_id) == d.watchlist[<<user_id, river_id>>] > 0

\* the thread's request as answered
Answered(frame, code, success) ==
    [frame EXCEPT !.pc = "done", !.code = code, !.success = success]

\* lines 977-988 and 1006-1016: the decorator, then the query for the row
\* of (current_user.id, river_id); an add of a watched river is answered
\* 400, a remove of an unwatched river 404
WatchQuery(t, who, route, river_id) ==
    /\ http.watch[t].pc \in {"idle", "done"}
    /\ LET frame == [NoWatch EXCEPT !.route = route, !.who = who,
                                    !.river_id = river_id]
           existing == Watched(db, who.id, river_id)
       IN  http' = [http EXCEPT !.watch[t] =
               IF ~ngo_required(db, who) THEN Answered(frame, 302, "")
               ELSE IF route = "add_to_watchlist" /\ existing
                    THEN Answered(frame, 400, "false")
               ELSE IF route = "remove_from_watchlist" /\ ~existing
                    THEN Answered(frame, 404, "false")
               ELSE [frame EXCEPT !.pc = "commit"]]
    /\ UNCHANGED db
    /\ UNCHANGED locals

\* lines 990-1004: the row is added and committed; the commit fails when
\* the database does, when the unique constraint refuses the row and when
\* an enforced foreign key finds no such river; a failure is rolled back
\* and answered 500
AddCommit(t, fails) ==
    /\ http.watch[t].pc = "commit"
    /\ http.watch[t].route = "add_to_watchlist"
    /\ LET frame == http.watch[t]
           p == <<frame.who.id, frame.river_id>>
           ok == /\ ~fails
                 /\ unique_user_river_watch(db, p[1], p[2])
                 /\ ForeignKeys(db) => /\ p[1] \in db.users
                                       /\ p[2] \in Ids(db.rivers)
       IN  IF ok
           THEN /\ db' = [db EXCEPT !.watchlist[p] = @ + 1]
                /\ http' = [http EXCEPT !.watch[t] =
                               Answered(frame, 200, "true")]
           ELSE /\ UNCHANGED db
                /\ http' = [http EXCEPT !.watch[t] =
                               Answered(frame, 500, "false")]
    /\ UNCHANGED locals

\* lines 1018-1025: the row found is deleted and committed; the commit
\* fails when the database does and when the row is gone by now
RemoveCommit(t, fails) ==
    /\ http.watch[t].pc = "commit"
    /\ http.watch[t].route = "remove_from_watchlist"
    /\ LET frame == http.watch[t]
           p == <<frame.who.id, frame.river_id>>
           ok == ~fails /\ Watched(db, p[1], p[2])
       IN  IF ok
           THEN /\ db' = [db EXCEPT !.watchlist[p] = @ - 1]
                /\ http' = [http EXCEPT !.watch[t] =
                               Answered(frame, 200, "true")]
           ELSE /\ UNCHANGED db
                /\ http' = [http EXCEPT !.watch[t] =
                               Answered(frame, 500, "false")]
    /\ UNCHANGED locals

\* a database with two NGO users, two rivers and an empty watchlist
WatchDb(engine) ==
    [DeleteDb(engine) EXCEPT !.watchlist = [p \in WatchPairs |-> 0]]

InitWatch ==
    /\ pc = "idle"
    /\ river = JsonRiver({}, "", EmptyDict)
    /\ weather_data = WeatherNone
    /\ rainfall = 0 /\ wind_speed = 0 /\ tide_level = 0 /\ water_flow = 0
    /\ rainfall_score = 0 /\ wind_score = 0 /\ tide_score = 0 /\ flow_score = 0
    /\ dri_score = 0 /\ risk_level = "" /\ risk_color = ""
    /\ debris_amount = NoAmount
    /\ debris_profile = EmptyDict /\ land_use = "" /\ adjusted_profile = EmptyDict
    /\ drawn = {}
    /\ raised = ""
    /\ report = NoReport
    /\ other = NoFrame
    /\ db \in {WatchDb(engine) : engine \in {"sqlite", "postgresql"}}
    /\ http = NoHttp

\* add and remove requests of the two NGO users and of a client without a
\* session, two at a time
NextWatch ==
    \/ \E t \in Threads, who \in {Anonymous, Ngo(1), Ngo(2)},
          route \in {"add_to_watchlist", "remove_from_watchlist"},
          river_id \in {1, 2} : WatchQuery(t, who, route, river_id)
    \/ \E t \in Threads, fails \in BOOLEAN : AddCommit(t, fails)
    \/ \E t \in Threads, fails \in BOOLEAN : RemoveCommit(t, fails)

SpecWatch == InitWatch /\ [][NextWatch]_vars

---------------------------------------------------------------------------
(* Properties *)

\* the call has passed line 457, also when it raised later
AfterInputs ==
    \/ pc \in {"score", "profile", "adjust", "return", "returned"}
    \/ pc = "raised" /\ raised # "AttributeError"

\* the call has passed line 492
AfterScore ==
    \/ pc \in {"profile", "adjust", "return", "returned"}
    \/ pc = "raised" /\ raised \notin {"AttributeError", "TypeError"}

\* the call has passed line 507
AfterSelect ==
    \/ pc \in {"adjust", "return", "returned"}
    \/ pc = "raised" /\ raised \notin {"AttributeError", "TypeError"}

UrbanProfile == Profile(55, 20, 15, 5, 5)

\* the call of the worked example: precip_mm 40, wind_kph 20, tide 1.5,
\* flow 50
WorkedExample ==
    /\ pc = "returned"
    /\ weather_data = Reading(Tenths(400), Tenths(200))
    /\ tide_level = Tenths(15)
    /\ water_flow = Tenths(500)

\* C1: the risk level and colour are those of the tier table for the
\* score computed: below 30 Very Low, 30 to below 50 Low, 50 to below 70
\* Medium, 70 to below 85 High, 85 and above Critical; the report carries
\* the same level and colour.
C1_TierTable ==
    AfterScore =>
        /\ dri_score >= 0 /\ dri_score <= 100 * Unit
        /\ dri_score < 30 * Unit =>
              risk_level = "Very Low" /\ risk_color = "#28a745"
        /\ (30 * Unit <= dri_score /\ dri_score < 50 * Unit) =>
              risk_level = "Low" /\ risk_color = "#90EE90"
        /\ (50 * Unit <= dri_score /\ dri_score < 70 * Unit) =>
              risk_level = "Medium" /\ risk_color = "#ffc107"
        /\ (70 * Unit <= dri_score /\ dri_score < 85 * Unit) =>
              risk_level = "High" /\ risk_color = "#fd7e14"
        /\ 85 * Unit <= dri_score =>
              risk_level = "Critical" /\ risk_color = "#dc3545"
        /\ pc = "returned" =>
              report.risk_level = risk_level /\ report.risk_color = risk_color

\* a report for a score of exactly 30, which is Low
C1_Witness ==
    /\ pc = "returned"
    /\ dri_score = 30 * Unit
    /\ report.risk_level = "Low"
    /\ report.risk_color = "#90EE90"

\* the tier table applied to a score in hundredths
ReportedTier(h) ==
    IF h < 30 * Hundredths THEN [level |-> "Very Low", color |-> "#28a745"]
    ELSE IF h < 50 * Hundredths THEN [level |-> "Low", color |-> "#90EE90"]
    ELSE IF h < 70 * Hundredths THEN [level |-> "Medium", color |-> "#ffc107"]
    ELSE IF h < 85 * Hundredths THEN [level |-> "High", color |-> "#fd7e14"]
    ELSE [level |-> "Critical", color |-> "#dc3545"]

\* C2: in every report the risk level and colour are those the tier table
\* assigns to the dri_score of that report (the score rounded to two
\* decimals).
C2_ReportedScoreTier ==
    pc = "returned" =>
        /\ report.risk_level = ReportedTier(report.dri_score).level
        /\ report.risk_color = ReportedTier(report.dri_score).color

\* C3: for a base profile with a positive sum, the percentages
\* adjust_debris_profile returns sum to exactly 100.
C3_SumIs100 ==
    (pc \in {"return", "returned"} /\ SumValues(debris_profile) > 0) =>
        /\ SumValues(adjusted_profile) = 100
        /\ pc = "returned" => SumValues(report.debris_types) = 100

\* a profile of the river's own, renormalized after both rules
C3_Witness ==
    /\ pc = "return"
    /\ debris_profile \notin {profiles[lu] : lu \in LandUses}
    /\ SumValues(debris_profile) > 100
    /\ rainfall > 30 * Unit
    /\ wind_speed > 25 * Unit
    /\ SumValues(Adjusted(debris_profile, rainfall, wind_speed)) # 100
    /\ SumValues(adjusted_profile) = 100

\* C4: the score is 0.40 rainfall + 0.25 wind + 0.20 tide + 0.15 flow of
\* the normalized factors, the weights sum to 1, the score lies in
\* [0, 100], is 0 only when the four raw factors are 0 and 100 only when
\* the four are at or above their reference maxima.
C4_WeightedSum ==
    AfterScore =>
        /\ 100 * dri_score =
              40 * rainfall_score + 25 * wind_score + 20 * tide_score
                  + 15 * flow_score
        /\ Weights.rainfall + Weights.wind_speed + Weights.tide_level
              + Weights.water_flow = 100
        /\ dri_score >= 0 /\ dri_score <= 100 * Unit
        /\ dri_score = 0 =>
              rainfall = 0 /\ wind_speed = 0 /\ tide_level = 0 /\ water_flow = 0
        /\ dri_score = 100 * Unit =>
              /\ rainfall >= 50 * Unit /\ wind_speed >= 40 * Unit
              /\ tide_level >= 3 * Unit /\ water_flow >= 100 * Unit

\* a score of 100 with the rainfall above its reference maximum
C4_Witness ==
    /\ pc = "returned"
    /\ dri_score = 100 * Unit
    /\ rainfall > 50 * Unit
    /\ report.dri_score = 100 * Hundredths

\* score = min(value / ref, 1) * 100, without a division
NormalizedAs(score, value, ref) ==
    /\ score * ref = Min(value, ref * Unit) * 100
    /\ score >= 0 /\ score <= 100 * Unit

\* C5: each normalized factor is min(value / reference, 1) * 100 with the
\* references 50, 40, 3 and 100, lies in [0, 100] and never exceeds 100,
\* in the computation and in the report; 500 mm of rain normalize to 100.
C5_Normalized ==
    AfterScore =>
        /\ NormalizedAs(rainfall_score, rainfall, 50)
        /\ NormalizedAs(wind_score, wind_speed, 40)
        /\ NormalizedAs(tide_score, tide_level, 3)
        /\ NormalizedAs(flow_score, water_flow, 100)
        /\ rainfall = 500 * Unit => rainfall_score = 100 * Unit
        /\ pc = "returned" =>
              \A f \in {"rainfall", "wind_speed", "tide_level", "water_flow"} :
                  /\ report.factors[f].normalized >= 0
                  /\ report.factors[f].normalized <= 100 * Hundredths

\* a report for 500 mm of rain, normalized to 100
C5_Witness ==
    /\ pc = "returned"
    /\ rainfall = 500 * Unit
    /\ rainfall_score = 100 * Unit
    /\ report.factors.rainfall.normalized = 100 * Hundredths

\* C6: the worked example gives the normalized factors 80, 50, 50, 50,
\* the score 62.0, the level Medium and the colour #ffc107.
C6_WorkedExample ==
    WorkedExample =>
        /\ report.factors.rainfall.normalized = 80 * Hundredths
        /\ report.factors.wind_speed.normalized = 50 * Hundredths
        /\ report.factors.tide_level.normalized = 50 * Hundredths
        /\ report.factors.water_flow.normalized = 50 * Hundredths
        /\ dri_score = 62 * Unit
        /\ report.dri_score = 62 * Hundredths
        /\ report.risk_level = "Medium"
        /\ report.risk_color = "#ffc107"

\* the worked example, returned with the score 62.0
C6_Witness == WorkedExample /\ report.dri_score = 62 * Hundredths

\* C7 as stated: the debris estimate of the worked example is 10280.0 to
\* the one decimal given.
C7_About10280 ==
    WorkedExample =>
        /\ report.debris_estimate_kg >= 10280 * Hundredths - 5
        /\ report.debris_estimate_kg <= 10280 * Hundredths + 5

\* C7 as amended: the debris estimate of the worked example, (62 / 70) *
\* 11600 rounded to two decimals, is 10274.29.
C7_Is10274 ==
    WorkedExample =>
        /\ debris_amount.num = 62 * Unit * 11600
        /\ debris_amount.den = 70
        /\ report.debris_estimate_kg = 1027429

\* the worked example, returned with the estimate 10274.29
C7_Witness == WorkedExample /\ report.debris_estimate_kg = 1027429

\* the call of C8: the urban profile, rainfall 35, wind 0
UrbanRain35 ==
    /\ pc \in {"return", "returned"}
    /\ debris_profile = UrbanProfile
    /\ rainfall = Tenths(350)
    /\ wind_speed = 0

\* the values scaled by 100 / total and rounded, the residual in plastic
ScaledBy(adjusted, total, result) ==
    /\ \A k \in DebrisTypes \ {"plastic"} :
          /\ 2 * total * result[k] >= 200 * adjusted[k] - total
          /\ 2 * total * result[k] <= 200 * adjusted[k] + total
    /\ SumValues(result) = 100

\* C8 as stated: organic becomes 30 and plastic 50, the sum is 130, the
\* values are scaled by 100/130 and rounded with the remainder in plastic,
\* and the result sums to 100.
C8_Sum130 ==
    UrbanRain35 =>
        LET adjusted == Adjusted(debris_profile, rainfall, wind_speed)
        IN  /\ adjusted["organic"] = 30
            /\ adjusted["plastic"] = 50
            /\ SumValues(adjusted) = 130
            /\ ScaledBy(adjusted, 130, adjusted_profile)

\* C8 as amended: organic becomes 30 and plastic 50, the sum is 105, the
\* values are scaled by 100/105 and rounded with the remainder in plastic
\* (plastic 47, organic 29, household 14, industrial 5, others 5), and
\* the result sums to 100.
C8_Sum105 ==
    UrbanRain35 =>
        LET adjusted == Adjusted(debris_profile, rainfall, wind_speed)
        IN  /\ adjusted = Profile(50, 30, 15, 5, 5)
            /\ SumValues(adjusted) = 105
            /\ ScaledBy(adjusted, 105, adjusted_profile)
            /\ adjusted_profile = Profile(47, 29, 14, 5, 5)
            /\ pc = "returned" => report.debris_types = adjusted_profile

\* the report of the call of C8
C8_Witness ==
    /\ UrbanRain35
    /\ pc = "returned"
    /\ report.debris_types = Profile(47, 29, 14, 5, 5)

\* a river without a profile of its own
NoOwnProfile(r) ==
    r.is_dict /\ ("debris_profile" \notin r.keys \/ DOMAIN r.debris_profile = {})

\* a land use that is missing, None, empty or not one of the five
NoKnownLandUse(r) ==
    \/ "land_use" \notin r.keys
    \/ r.land_use \notin LandUses

\* C9: for a river without a profile of its own whose land_use is missing,
\* None, empty or unknown, calculate_dri takes the urban profile as the
\* base profile; River.get_debris_profile gives a stored river with such a
\* land_use the urban profile, which is then the base profile of its call.
C9_UrbanDefault ==
    /\ (AfterSelect /\ NoOwnProfile(river) /\ NoKnownLandUse(river)) =>
          debris_profile = UrbanProfile
    /\ \A col \in LandUseValues \ LandUses :
          /\ get_debris_profile(col) = UrbanProfile
          /\ (AfterSelect /\ river = to_dict(1, "Sungai Klang", col)) =>
                debris_profile = UrbanProfile

\* a river from the JSON file with an unknown land use, given the urban
\* profile
C9_Witness ==
    /\ pc = "returned"
    /\ river = JsonRiver({"land_use"}, "forest", EmptyDict)
    /\ debris_profile = UrbanProfile

\* C10 as stated: rainfall and wind speed come from the weather exactly
\* when it holds a current reading with both fields; in every other case
\* both are draws.
C10_DrawnUnlessBothFields ==
    AfterInputs =>
        LET w == weather_data
            both == /\ ~w.is_none
                    /\ "current" \in w.keys
                    /\ {"precip_mm", "wind_kph"} \subseteq w.current.keys
        IN  /\ both =>
                  /\ rainfall = w.current.precip_mm
                  /\ wind_speed = w.current.wind_kph
                  /\ drawn \cap {"rainfall", "wind_speed"} = {}
            /\ ~both => {"rainfall", "wind_speed"} \subseteq drawn

\* C10 as amended: rainfall and wind speed come from the weather exactly
\* when it is a mapping with a 'current' entry, a field the reading lacks
\* counting as 0; in every other case (None, empty, no 'current') both are
\* draws from [0, 50] and [0, 40], whose normalized values are not
\* clamped.
C10_DrawnUnlessCurrent ==
    AfterInputs =>
        LET w == weather_data
            has == ~w.is_none /\ "current" \in w.keys
        IN  /\ has =>
                  /\ rainfall = IF "precip_mm" \in w.current.keys
                                THEN w.current.precip_mm ELSE 0
                  /\ wind_speed = IF "wind_kph" \in w.current.keys
                                  THEN w.current.wind_kph ELSE 0
                  /\ drawn \cap {"rainfall", "wind_speed"} = {}
            /\ ~has =>
                  /\ {"rainfall", "wind_speed"} \subseteq drawn
                  /\ rainfall >= 0 /\ rainfall <= 50 * Unit
                  /\ wind_speed >= 0 /\ wind_speed <= 40 * Unit
                  /\ AfterScore =>
                        /\ rainfall_score * 50 = rainfall * 100
                        /\ wind_score * 40 = wind_speed * 100

\* a reading without wind_kph: the wind speed is 0 and was not drawn
C10_Witness ==
    /\ pc = "returned"
    /\ ~weather_data.is_none
    /\ "current" \in weather_data.keys
    /\ weather_data.current.keys = {"precip_mm"}
    /\ rainfall = weather_data.current.precip_mm
    /\ wind_speed = 0
    /\ "wind_speed" \notin drawn

\* C11: in every call, with a weather reading or without, the tide level
\* is a draw from [0, 3] and the water flow a draw from [0, 100], and the
\* report carries them; whatever the weather and the river of the call,
\* every tide and every flow of the draw sets can be drawn.
C11_TideFlowDrawn ==
    /\ AfterInputs =>
          /\ {"tide_level", "water_flow"} \subseteq drawn
          /\ tide_level >= 0 /\ tide_level <= 3 * Unit
          /\ water_flow >= 0 /\ water_flow <= 100 * Unit
          /\ pc = "returned" =>
                /\ report.factors.tide_level.value * (Unit \div Hundredths)
                      = tide_level
                /\ report.factors.water_flow.value * (Unit \div Hundredths)
                      = water_flow
    /\ (pc = "inputs" /\ ~ReadRaises(weather_data)) =>
          \A t \in TideDraws, f \in FlowDraws :
              ENABLED (ReadInputs /\ tide_level' = t /\ water_flow' = f)

\* a report for a reading of 500 mm of rain and 80 kph of wind whose tide
\* and flow are the draws 0 and 0
C11_Witness ==
    /\ pc = "returned"
    /\ weather_data = Reading(Tenths(5000), Tenths(800))
    /\ {"tide_level", "water_flow"} \subseteq drawn
    /\ tide_level = 0 /\ water_flow = 0
    /\ report.factors.tide_level.value = 0
    /\ report.factors.water_flow.value = 0

\* C12: in every report debris_estimate_kg is (dri_score / 70) * 11600 of
\* the dri_score of that report, to two decimals; it is not negative and
\* is 11600 for a dri_score of 70.
C12_EstimateOfReportedScore ==
    pc = "returned" =>
        /\ 70 * report.debris_estimate_kg
              >= 11600 * report.dri_score - 35
        /\ 70 * report.debris_estimate_kg
              <= 11600 * report.dri_score + 35
        /\ report.debris_estimate_kg >= 0
        /\ report.dri_score = 70 * Hundredths =>
              report.debris_estimate_kg = 11600 * Hundredths

\* C13: calculate_dri returns a report and never raises, whatever the
\* river (any land_use, any profile or none, also one that omits a type or
\* sums to 0) and the weather (None, a mapping with or without a current
\* reading, a null reading, a reading with null fields).
C13_NeverRaises == pc # "raised" /\ raised = ""

\* C14: during a call the river mapping, the debris_profile mapping it
\* holds and the weather mapping keep their values at every step, also
\* when the rules fire or the profile is renormalized, and the base
\* profile a call would select for the river stays the one this call
\* selected.
C14_InputsUnchanged ==
    [][(pc # "idle" /\ pc' # "idle") =>
          /\ river' = river
          /\ weather_data' = weather_data
          /\ AfterSelect =>
                /\ debris_profile' = debris_profile
                /\ debris_profile' =
                      BaseProfile(RiverProfile(river'), RiverLandUse(river'))]_vars

\* a report for a river with a profile of its own, both rules fired and
\* the profile renormalized, the river still holding its profile
C14_Witness ==
    /\ pc = "returned"
    /\ OwnProfile(river)
    /\ rainfall > 30 * Unit /\ wind_speed > 25 * Unit
    /\ river.debris_profile = Profile(20, 20, 20, 20, 20)
    /\ debris_profile = river.debris_profile
    /\ SumValues(Adjusted(debris_profile, rainfall, wind_speed)) # 100
    /\ report.debris_types # river.debris_profile

\* the reports a call alone returns for the arguments r and w and the
\* values rain, wind, tide and flow of its reading and draws
SoloReports(r, w, rain, wind, tide, flow) ==
    LET rs == Normalize(rain, MAX_RAINFALL)
        ws == Normalize(wind, MAX_WIND)
        ts == Normalize(tide, MAX_TIDE)
        fs == Normalize(flow, MAX_FLOW)
        score == WeightedSum(rs, ws, ts, fs)
        amount == DebrisAmount(score)
        base == BaseProfile(RiverProfile(r), RiverLandUse(r))
        adjusted == Adjusted(base, rain, wind)
    IN  {[river_id |-> r.id,
          river_name |-> r.name,
          dri_score |-> Round2(score, 1, up),
          risk_level |-> RiskTier(score).level,
          risk_color |-> RiskTier(score).color,
          debris_estimate_kg |-> Round2(amount.num, amount.den, up),
          land_use |-> RiverLandUse(r),
          debris_types |-> Renormalize(adjusted, ups),
          factors |->
             [rainfall |-> Factor(rain, rs, "40%"),
              wind_speed |-> Factor(wind, ws, "25%"),
              tide_level |-> Factor(tide, ts, "20%"),
              water_flow |-> Factor(flow, fs, "15%")]] :
            up \in BOOLEAN, ups \in SUBSET TieKeys(adjusted)}

\* the call with the locals f has the values of its own reading and draws
\* and, once returned, a report of its own arguments and draws
SoloCall(f) ==
    /\ f.pc \in {"score", "profile", "adjust", "return", "returned"} =>
          /\ f.rainfall = CurrentGet(f.weather_data, "precip_mm")
          /\ f.wind_speed = CurrentGet(f.weather_data, "wind_kph")
          /\ f.tide_level \in TideDraws
          /\ f.water_flow \in FlowDraws
    /\ f.pc = "returned" =>
          f.report \in SoloReports(f.river, f.weather_data, f.rainfall,
                                   f.wind_speed, f.tide_level, f.water_flow)

\* C15: with two calls interleaved at any of their steps, each call keeps
\* the values of its own reading and draws, and each returned report is a
\* report the call alone returns for its arguments and its draws.
C15_ReportsAsAlone == SoloCall(Frame) /\ SoloCall(other)

\* the call for one river has returned while the call for the other
\* river, begun before, waits half way with another score
C15_Witness ==
    /\ pc = "returned"
    /\ other.pc = "adjust"
    /\ river.id # other.river.id
    /\ report.river_id = river.id
    /\ dri_score # other.dri_score
    /\ tide_level # other.tide_level

\* the working copy before the renormalization, for a call that returned
\* from adjust_debris_profile
Working == Adjusted(debris_profile, rainfall, wind_speed)

\* C16: the rain rule is applied exactly when rainfall > 30 and the wind
\* rule exactly when wind_speed > 25, with the caps 60, 10, 70 and 5; at
\* rainfall 30 and wind 25 neither fires; household, industrial and
\* others keep their values until the renormalization.
C16_RulesAtThresholds ==
    pc \in {"return", "returned"} =>
        LET base == debris_profile
            rain == rainfall > 30 * Unit
            wind == wind_speed > 25 * Unit
        IN  /\ DOMAIN Working = DOMAIN base
            /\ \A k \in DOMAIN base \ {"organic", "plastic"} :
                  Working[k] = base[k]
            /\ (~rain /\ ~wind) => Working = base
            /\ (rain /\ ~wind) =>
                  /\ Working["organic"] = Min(base["organic"] + 10, 60)
                  /\ Working["plastic"] = Max(base["plastic"] - 5, 10)
            /\ (~rain /\ wind) =>
                  /\ Working["plastic"] = Min(base["plastic"] + 8, 70)
                  /\ Working["organic"] = Max(base["organic"] - 5, 5)
            /\ SumValues(Working) = 100 => adjusted_profile = Working

\* a table profile at rainfall exactly 30 and wind exactly 25, returned
\* as it is
C16_Witness ==
    /\ pc = "returned"
    /\ rainfall = 30 * Unit
    /\ wind_speed = 25 * Unit
    /\ debris_profile = profiles["rural"]
    /\ report.debris_types = profiles["rural"]

\* C17: with rainfall > 30 and wind_speed > 25 the working copy is the
\* wind rule applied to the result of the rain rule, also when a cap is
\* hit and the opposite order gives another profile.
C17_RainThenWind ==
    (pc \in {"return", "returned"} /\ rainfall > 30 * Unit
        /\ wind_speed > 25 * Unit) =>
        LET base == debris_profile
        IN  /\ Working = WindRule(RainRule(base))
            /\ Working["plastic"] =
                  Min(Max(base["plastic"] - 5, 10) + 8, 70)
            /\ Working["organic"] =
                  Max(Min(base["organic"] + 10, 60) - 5, 5)
            /\ SumValues(Working) = 100 => adjusted_profile = Working

\* both rules fired on a profile for which the opposite order gives
\* another working copy (plastic 0: 18 rain first, 10 wind first)
C17_Witness ==
    /\ pc = "returned"
    /\ rainfall > 30 * Unit /\ wind_speed > 25 * Unit
    /\ debris_profile["plastic"] = 0
    /\ Working["plastic"] = 18
    /\ RainRule(WindRule(debris_profile))["plastic"] = 10
    /\ WindRule(RainRule(debris_profile)) # RainRule(WindRule(debris_profile))

\* n is v * 100 / total rounded to the nearest integer
NearestScaled(n, v, total) ==
    /\ 2 * total * n >= 200 * v - total
    /\ 2 * total * n <= 200 * v + total

\* C18: a working copy that sums to 100 is returned as it is; otherwise
\* every type but plastic holds its value scaled by 100 / sum and rounded
\* to the nearest integer, and plastic its own scaled and rounded value
\* plus the residual 100 minus the sum of the rounded values.
C18_ScaleRoundResidual ==
    pc \in {"return", "returned"} =>
        LET total == SumValues(Working)
            rest == DOMAIN Working \ {"plastic"}
        IN  /\ total = 100 => adjusted_profile = Working
            /\ total # 100 =>
                  /\ DOMAIN adjusted_profile = DOMAIN Working
                  /\ \A k \in rest :
                        NearestScaled(adjusted_profile[k], Working[k], total)
                  /\ \E rp \in 0..100 :
                        /\ NearestScaled(rp, Working["plastic"], total)
                        /\ adjusted_profile["plastic"] =
                              rp + (100 - (rp + SumOver(adjusted_profile, rest)))
            /\ pc = "returned" => report.debris_types = adjusted_profile

\* a working copy that sums to 144, scaled and rounded to 11, 0, 0, 44
\* and 44, the residual 1 added to plastic
C18_Witness ==
    /\ pc = "returned"
    /\ Working = Profile(16, 0, 0, 64, 64)
    /\ SumValues(Working) = 144
    /\ report.debris_types = Profile(12, 0, 0, 44, 44)

\* the land_use a river exposes, as a key of the mapping or as an
\* attribute of the object; None when the mapping has no such key
ExposedLandUse(r) ==
    IF r.is_dict /\ "land_use" \notin r.keys THEN None ELSE r.land_use

\* the debris_profile a river supplies, empty when it supplies none
SuppliedProfile(r) ==
    IF r.is_dict /\ "debris_profile" \notin r.keys THEN EmptyDict
    ELSE r.debris_profile

\* C19: the base profile is the river's own debris_profile when it
\* supplies one, whatever its land_use, and otherwise the table profile of
\* the river's land_use (urban for a land_use outside the table), for a
\* river given as a mapping and for one given as an object.
C19_OwnElseLandUseProfile ==
    AfterSelect =>
        debris_profile =
            IF DOMAIN SuppliedProfile(river) # {} THEN SuppliedProfile(river)
            ELSE TableGet(profiles, ExposedLandUse(river), profiles["urban"])

\* C20: the land_use of every report is one of the five land uses, the
\* river's own when that is one of the five and "urban" otherwise, and
\* it names the table profile selected when the river supplies none.
C20_ReportedLandUse ==
    pc = "returned" =>
        /\ report.land_use \in LandUses
        /\ report.land_use =
              IF ExposedLandUse(river) \in LandUses
              THEN ExposedLandUse(river) ELSE "urban"
        /\ DOMAIN SuppliedProfile(river) = {} =>
              debris_profile = profiles[report.land_use]

\* C23: with a weather reading, for every tide and flow drawn the score
\* lies between 0.40 rainfall_score + 0.25 wind_score and that value plus
\* 35, and the draws that give the two ends are possible; with no rain
\* and no wind the level is never above Low, with rainfall >= 50 and
\* wind >= 40 never below Medium.
C23_ScoreBand ==
    /\ (AfterScore /\ UsesCurrent(weather_data)) =>
          LET low == 40 * rainfall_score + 25 * wind_score
          IN  /\ 100 * dri_score >= low
              /\ 100 * dri_score <= low + 35 * 100 * Unit
              /\ (tide_level = 0 /\ water_flow = 0) => 100 * dri_score = low
              /\ (tide_level = 3 * Unit /\ water_flow = 100 * Unit) =>
                    100 * dri_score = low + 35 * 100 * Unit
              /\ (rainfall = 0 /\ wind_speed = 0) =>
                    risk_level \in {"Very Low", "Low"}
              /\ (rainfall >= 50 * Unit /\ wind_speed >= 40 * Unit) =>
                    risk_level \in {"Medium", "High", "Critical"}
              /\ pc = "returned" => report.risk_level = risk_level
    /\ (pc = "inputs" /\ UsesCurrent(weather_data)
            /\ ~ReadRaises(weather_data)) =>
          /\ ENABLED (ReadInputs /\ tide_level' = 0 /\ water_flow' = 0)
          /\ ENABLED (ReadInputs /\ tide_level' = 3 * Unit
                        /\ water_flow' = 100 * Unit)

\* a reading without rain and wind, the tide and the flow at their
\* maxima: the score is 35 and the level Low
C23_Witness ==
    /\ pc = "returned"
    /\ UsesCurrent(weather_data)
    /\ rainfall = 0 /\ wind_speed = 0
    /\ tide_level = 3 * Unit /\ water_flow = 100 * Unit
    /\ dri_score = 35 * Unit
    /\ report.risk_level = "Low"

\* C24: for each of the five table profiles, whatever rules fire, the
\* profile adjust_debris_profile returns has exactly the five debris
\* types, each an integer in [0, 100], plastic included after the
\* residual is added.
C24_TableProfilesInRange ==
    (pc \in {"return", "returned"}
        /\ debris_profile \in {profiles[lu] : lu \in LandUses}) =>
        /\ DOMAIN adjusted_profile = DebrisTypes
        /\ \A k \in DebrisTypes : adjusted_profile[k] \in 0..100
        /\ adjusted_profile["plastic"] >= 0
        /\ pc = "returned" => report.debris_types = adjusted_profile

\* the urban profile in rain: the rounded values sum to 101 and the
\* residual -1 leaves plastic at 47
C24_Witness ==
    /\ pc = "returned"
    /\ debris_profile = profiles["urban"]
    /\ rainfall > 30 * Unit /\ wind_speed <= 25 * Unit
    /\ PyRound(Working["plastic"] * 100, SumValues(Working), FALSE) = 48
    /\ report.debris_types["plastic"] = 47

\* C25: for every land_use (the five names, None, empty, unknown) the
\* profile River.get_debris_profile puts into River.to_dict is the
\* profile calculate_dri selects from its own table for that land_use,
\* so a stored river and a river from the JSON file with the same
\* land_use have the same base profile.
C25_TablesAgree ==
    /\ \A lu \in LandUseValues :
          get_debris_profile(lu) = BaseProfile(EmptyDict, lu)
    /\ AfterSelect =>
          \A lu \in LandUseValues :
              (\/ river = to_dict(1, "Sungai Klang", lu)
               \/ river = JsonRiver({"land_use"}, lu, EmptyDict)) =>
                  /\ debris_profile = get_debris_profile(lu)
                  /\ debris_profile = TableGet(profiles, lu, profiles["urban"])

\* a stored coastal river, scored with the coastal profile of to_dict,
\* which is the coastal profile of the table of calculate_dri
C25_Witness ==
    /\ pc = "returned"
    /\ river = to_dict(1, "Sungai Klang", "coastal")
    /\ debris_profile = river.debris_profile
    /\ debris_profile = profiles["coastal"]

\* C21: whenever the weather lookup of get_river_dri fails (requests.get
\* raises or times out, the status is not 200, the body is not JSON),
\* calculate_dri is called with weather None, draws all four factors, does
\* not raise, and the request is answered 200 with the report.
C21_WeatherFailureFallsBack ==
    (http.dri.pc \in {"call", "done"}
        /\ http.dri.lookup \in {"exception", "status", "undecodable"}) =>
        /\ http.dri.weather_data = WeatherNone
        /\ pc # "idle" =>
              /\ weather_data = WeatherNone
              /\ river = http.dri.river_data
        /\ pc # "raised"
        /\ pc \in {"score", "profile", "adjust", "return", "returned"} =>
              drawn = {"rainfall", "wind_speed", "tide_level", "water_flow"}
        /\ pc = "returned" =>
              /\ report # NoReport
              /\ report.factors.rainfall.value * (Unit \div Hundredths)
                    = rainfall
              /\ report.factors.wind_speed.value * (Unit \div Hundredths)
                    = wind_speed
        /\ http.dri.pc = "done" =>
              /\ http.dri.code = 200
              /\ http.dri.body # NoReport
              /\ http.dri.body.river_id = http.dri.river_id

\* the weather API answered 200 with a body that is not JSON; the stored
\* river 1 got a report with drawn rain
C21_Witness ==
    /\ http.dri.pc = "done"
    /\ http.dri.lookup = "undecodable"
    /\ http.dri.river_id = 1
    /\ http.dri.code = 200
    /\ http.dri.body.factors.rainfall.value = 50 * Hundredths
    /\ http.dri.body.land_use = "coastal"

\* C22: the step of get_river_dri that stores the reading answers 200 with
\* the report calculate_dri returned; when the insert fails the readings
\* are as before, when it succeeds exactly one row is added, for the
\* requested river, whose score, level, factor values and debris estimate
\* are those of the report.
C22_StoredReadingMatchesReport ==
    [][(http.dri.pc = "call" /\ pc = "returned" /\ http'.dri.pc = "done") =>
          /\ http'.dri.code = 200
          /\ http'.dri.body = report
          /\ IF http'.dri.stored
             THEN \E row \in db'.readings :
                    /\ row.id \notin Ids(db.readings)
                    /\ db'.readings = db.readings \cup {row}
                    /\ row.river_id = http.dri.river_id
                    /\ row.dri_score = report.dri_score
                    /\ row.risk_level = report.risk_level
                    /\ row.rainfall = report.factors.rainfall.value
                    /\ row.wind_speed = report.factors.wind_speed.value
                    /\ row.tide_level = report.factors.tide_level.value
                    /\ row.water_flow = report.factors.water_flow.value
                    /\ row.estimated_debris_kg = report.debris_estimate_kg
             ELSE db'.readings = db.readings
          /\ db'.rivers = db.rivers]_vars

\* the insert failed: the report of river 1 was returned and the table
\* holds the earlier reading only
C22_Witness ==
    /\ http.dri.pc = "done"
    /\ http.dri.code = 200
    /\ ~http.dri.stored
    /\ http.dri.river_id = 1
    /\ http.dri.body.dri_score > 0
    /\ Ids(db.rivers) = {1}
    /\ Ids(db.readings) = {1}

\* C29: every stored DRIReading refers to a row of the rivers table, at
\* every moment of a DRI request that delete_river and clear_rivers may
\* interleave with.
C29_ReadingsReferToRivers ==
    \A row \in db.readings : row.river_id \in Ids(db.rivers)

\* C26: a request that removes a river, a DRI reading or an NGO user was
\* issued by an authenticated admin; requests of clients without a session
\* and of NGO users leave the three tables as large as they were.
C26_OnlyAdminsDelete ==
    [][(\/ ~(Ids(db.rivers) \subseteq Ids(db'.rivers))
        \/ ~(Ids(db.readings) \subseteq Ids(db'.readings))
        \/ ~(db.users \subseteq db'.users))
          => admin_required(db, http'.last.who)]_vars

\* C27: a review of a location request or of a debris report that is
\* answered with success false leaves the requests, the reports, the
\* rivers and the alerts as they were before the call.
C27_FailedReviewChangesNothing ==
    [][(/\ http'.last.route \in {"review_location_request", "review_report"}
        /\ http'.last.success = "false")
          => /\ db'.requests = db.requests
             /\ db'.reports = db.reports
             /\ db'.rivers = db.rivers
             /\ db'.alerts = db.alerts]_vars

\* C28: a river comes into being only by a review that sets a location
\* request to approved, the reviews of one request create at most one river
\* over time, and created_river_id is the id of that river (or NULL once
\* the river is deleted).
C28_OneRiverPerRequest ==
    [][/\ Ids(db'.rivers) \ Ids(db.rivers) # {} =>
            /\ http'.last.route = "review_location_request"
            /\ \E req \in db'.requests, id \in Ids(db'.rivers) :
                  /\ req.status = "approved"
                  /\ Ids(db'.rivers) \ Ids(db.rivers) = {id}
                  /\ req.created = Append(Get(db.requests, req.id).created, id)
       /\ \A req \in db'.requests :
            /\ Len(req.created) <= 1
            /\ req.created # <<>> =>
                  \/ req.created_river_id = req.created[Len(req.created)]
                  \/ /\ req.created_river_id = 0
                     /\ req.created[Len(req.created)] \notin Ids(db'.rivers)]_vars

\* C30: whatever add and remove requests the two threads serve and however
\* their steps interleave, the watchlist holds at most one row per (user,
\* river); an add of a river the issuing user already watches is answered
\* with success false and leaves the watchlist as it was; and a row of the
\* watchlist changes only in the step that answers a request of the user
\* of that row.
C30_OneEntryPerUserRiver ==
    [][/\ \A p \in WatchPairs : db'.watchlist[p] <= 1
       /\ \A t \in Threads :
            LET frame == http'.watch[t]
            IN  (/\ frame # http.watch[t]
                 /\ frame.pc = "done"
                 /\ frame.route = "add_to_watchlist"
                 /\ ngo_required(db, frame.who)
                 /\ Watched(db, frame.who.id, frame.river_id)) =>
                    /\ frame.success = "false"
                    /\ frame.code \in {400, 500}
                    /\ db'.watchlist = db.watchlist
       /\ \A p \in WatchPairs :
            db'.watchlist[p] # db.watchlist[p] =>
                \E t \in Threads :
                    /\ http.watch[t].pc = "commit"
                    /\ http'.watch[t].pc = "done"
                    /\ http'.watch[t].who = Ngo(p[1])
                    /\ http'.watch[t].river_id = p[2]]_vars

\* two adds of river 1 by user 1 that both found no row: the first commit
\* inserted the row, the second was refused and rolled back
C30_Witness ==
    /\ http.watch[1].pc = "done" /\ http.watch[2].pc = "done"
    /\ http.watch[1].route = "add_to_watchlist"
    /\ http.watch[2].route = "add_to_watchlist"
    /\ http.watch[1].who = Ngo(1) /\ http.watch[2].who = Ngo(1)
    /\ http.watch[1].river_id = 1 /\ http.watch[2].river_id = 1
    /\ http.watch[1].code = 200 /\ http.watch[2].code = 500
    /\ db.watchlist[<<1, 1>>] = 1
    /\ db.watchlist[<<2, 1>>] = 0

=============================================================================
